---------------------------- MODULE Spec2Model ----------------------------
(***************************************************************************)
(* Word-level audio/text synchronisation of simulacrum-stories.            *)
(*                                                                         *)
(* The module models scripts/wrap-chapter-words.py: the token normalizer   *)
(* (normalize_word), the fuzzy comparator (fuzzy_match), the stream        *)
(* aligner (TranscriptAlignedWrapper._find_matching_transcript_idx and     *)
(* _wrap_words_aligned), the markup annotator (the HTMLParser handlers of  *)
(* TranscriptAlignedWrapper / SimpleWordWrapper) and process_chapter;      *)
(* scripts/export-word-timing.py, the timing exporter with its             *)
(* calibration, fed with the manifest of the audio that                    *)
(* scripts/rebuild-with-correct-breaks.py lays out;                        *)
(* scripts/validate-word-sync.py, the sync validator;                      *)
(* src/simulacrum/types.py, the type guards of the world state; and        *)
(* src/simulacrum/audio/budget.py, the quota manager of the TTS providers. *)
(*                                                                         *)
(* A Python str is a sequence of one-character strings.  Characters that   *)
(* are not ASCII are written by name: "emdash", "endash", "ellipsis".      *)
(*                                                                         *)
(* Specifications:                                                         *)
(*   Spec           process_chapter run on a chapter page, one parser      *)
(*                  event per step;                                        *)
(*   SpecAlign      the word loop of _wrap_words_aligned, any word at each *)
(*                  iteration;                                             *)
(*   SpecResync     the same loop over a text with a run of five           *)
(*                  fabricated words;                                      *)
(*   SpecNormalize  normalize_word applied to a word and to its result;    *)
(*   SpecFuzzy      fuzzy_match applied to a pair of strings, both ways;   *)
(*   SpecExport     main of export-word-timing.py, one transcript file     *)
(*                  per step;                                              *)
(*   SpecValidate   main of validate-word-sync.py, one chapter per step;   *)
(*   SpecTypes      is_world_state_dict and validate_world_state applied   *)
(*                  to a value;                                            *)
(*   SpecBudget     the commands of budget.py, one command per step.       *)
(***************************************************************************)
EXTENDS Integers, Sequences, FiniteSets, TLC

(***************************************************************************)
(* Strings                                                                 *)
(***************************************************************************)

\* The str "amp", "lt", ... as character sequences.
AmpName == <<"a", "m", "p">>
LtName  == <<"l", "t">>

\* s[i:] of Python, 1-based: the suffix of s starting at position i.
Drop(s, i) == SubSeq(s, i, Len(s))

\* s.startswith(p) at position i (1-based).
StartsWithAt(s, i, p) ==
    /\ i + Len(p) - 1 <= Len(s)
    /\ SubSeq(s, i, i + Len(p) - 1) = p

\* str.startswith
StartsWith(s, p) == StartsWithAt(s, 1, p)

\* ''.join(parts)
RECURSIVE Join(_)
Join(parts) ==
    IF parts = <<>> THEN <<>> ELSE Head(parts) \o Join(Tail(parts))

\* html.unescape, for the named references amp and lt.  Python's rule: at
\* "&" the longest run of name characters (with an optional ";") is taken; if
\* it is not itself a reference, its longest prefix that is one is replaced
\* and the rest is kept.  "amp" and "lt" are references with and without
\* the ";".  The scan is one pass: the replacement text is not scanned again.
RECURSIVE unescape(_)
unescape(s) ==
    IF s = <<>> THEN <<>>
    ELSE IF Head(s) # "&" THEN <<Head(s)>> \o unescape(Tail(s))
    ELSE IF StartsWithAt(s, 2, AmpName \o <<";">>)
         THEN <<"&">> \o unescape(Drop(s, 6))
    ELSE IF StartsWithAt(s, 2, AmpName)
         THEN <<"&">> \o unescape(Drop(s, 5))
    ELSE IF StartsWithAt(s, 2, LtName \o <<";">>)
         THEN <<"<">> \o unescape(Drop(s, 5))
    ELSE IF StartsWithAt(s, 2, LtName)
         THEN <<"<">> \o unescape(Drop(s, 4))
    ELSE <<"&">> \o unescape(Tail(s))

\* html.escape(s, quote=True): & < > " ' become references.
RECURSIVE escape(_)
escape(s) ==
    IF s = <<>> THEN <<>>
    ELSE (CASE Head(s) = "&"  -> <<"&", "a", "m", "p", ";">>
            [] Head(s) = "<"  -> <<"&", "l", "t", ";">>
            [] Head(s) = ">"  -> <<"&", "g", "t", ";">>
            [] Head(s) = "\"" -> <<"&", "q", "u", "o", "t", ";">>
            [] Head(s) = "'"  -> <<"&", "#", "x", "2", "7", ";">>
            [] OTHER          -> <<Head(s)>>) \o escape(Tail(s))

\* unicodedata.normalize('NFKC', s): the horizontal ellipsis decomposes to
\* three full stops; every other character of the model is its own NFKC form.
RECURSIVE nfkc(_)
nfkc(s) ==
    IF s = <<>> THEN <<>>
    ELSE (IF Head(s) = "ellipsis" THEN <<".", ".", ".">> ELSE <<Head(s)>>)
         \o nfkc(Tail(s))

\* str.lower, on the upper-case letters the model uses.
LowerChar(c) ==
    CASE c = "T" -> "t"
      [] c = "S" -> "s"
      [] c = "G" -> "g"
      [] OTHER   -> c

lower(s) == [i \in 1..Len(s) |-> LowerChar(s[i])]

\* The characters of the strip() call of normalize_word.
StripChars ==
    {".", ",", ";", ":", "!", "?", "\"", "(", ")", "[", "]", "{", "}",
     "emdash", "endash", "-", "ellipsis", "'", "lowquote", "leftguillemet",
     "rightguillemet"}

RECURSIVE lstrip(_)
lstrip(s) ==
    IF s # <<>> /\ Head(s) \in StripChars THEN lstrip(Tail(s)) ELSE s

RECURSIVE rstrip(_)
rstrip(s) ==
    IF s # <<>> /\ s[Len(s)] \in StripChars
    THEN rstrip(SubSeq(s, 1, Len(s) - 1)) ELSE s

\* str.strip(chars)
strip(s) == rstrip(lstrip(s))

\* The three replace() calls of normalize_word.
DashChars == {"emdash", "endash", "-"}

RECURSIVE remove_dashes(_)
remove_dashes(s) ==
    IF s = <<>> THEN <<>>
    ELSE (IF Head(s) \in DashChars THEN <<>> ELSE <<Head(s)>>) \o remove_dashes(Tail(s))

\* normalize_word(word)
normalize_word(word) == remove_dashes(strip(lower(nfkc(unescape(word)))))

(***************************************************************************)
(* Fuzzy comparator                                                        *)
(***************************************************************************)

Abs(x) == IF x < 0 THEN -x ELSE x
Max(x, y) == IF x >= y THEN x ELSE y
Min(x, y) == IF x <= y THEN x ELSE y

\* The table of spelling variants of fuzzy_match.
spelling_variants ==
    { << <<"g","r","a","y">>, <<"g","r","e","y">> >>,
      << <<"c","o","l","o","r">>, <<"c","o","l","o","u","r">> >>,
      << <<"c","e","n","t","e","r">>, <<"c","e","n","t","r","e">> >>,
      << <<"r","e","a","l","i","z","e">>, <<"r","e","a","l","i","s","e">> >>,
      << <<"a","n","a","l","y","z","e">>, <<"a","n","a","l","y","s","e">> >> }

\* sum(1 for c in s1 if c in s2)
common_chars(s1, s2) ==
    Cardinality({i \in 1..Len(s1) : \E j \in 1..Len(s2) : s2[j] = s1[i]})

\* abs(len(s1) - len(s2)) > max(len(s1), len(s2)) * 0.3, in tenths.
length_too_different(s1, s2) ==
    10 * Abs(Len(s1) - Len(s2)) > 3 * Max(Len(s1), Len(s2))

\* ratio >= threshold, threshold = 0.9 if min_len <= 4 else 0.75, in
\* hundredths: 2 * common / (len(s1) + len(s2)) >= threshold.
ratio_reaches_threshold(s1, s2) ==
    LET min_len == Min(Len(s1), Len(s2))
        threshold == IF min_len <= 4 THEN 90 ELSE 75
    IN  100 * 2 * common_chars(s1, s2) >= threshold * (Len(s1) + Len(s2))

\* fuzzy_match(s1, s2)
fuzzy_match(s1, s2) ==
    IF s1 = <<>> \/ s2 = <<>> THEN FALSE
    ELSE IF s1 = s2 THEN TRUE
    ELSE IF <<s1, s2>> \in spelling_variants \/ <<s2, s1>> \in spelling_variants
         THEN TRUE
    ELSE IF length_too_different(s1, s2) THEN FALSE
    ELSE ratio_reaches_threshold(s1, s2)

(***************************************************************************)
(* Stream aligner: TranscriptAlignedWrapper._find_matching_transcript_idx  *)
(***************************************************************************)

\* Python's None, where an int is expected (match_idx).
None == -1

\* self.transcript_words[i], i 0-based.  An index outside the list raises
\* IndexError in Python: the read then yields no word, and index_error says so.
IndexErrorWord == <<"IndexError">>

index_error(words, i) == i < 0 \/ i >= Len(words)

word_at(words, i) == IF index_error(words, i) THEN IndexErrorWord ELSE words[i + 1]

\* html_norm == trans_norm or fuzzy_match(html_norm, trans_norm)
matches(html_norm, trans_norm) == html_norm = trans_norm \/ fuzzy_match(html_norm, trans_norm)

\* The loop guards of the three bounded scans (each `break`s when false).
compound_in_range(transcript_idx, join_count, n) == transcript_idx + join_count <= n

lookahead_in_range(transcript_idx, offset, n) == transcript_idx + offset < n

resync_in_range(transcript_idx, look, n) == transcript_idx + look < n

\* range(2, 4), range(1, 6), range(6, 20)
join_count_range == 2..3

\* A lookahead that stops one word short: range(1, 5).
lookahead_range_to_four == 1..4

lookahead_range == 1..5

resync_range == 6..19

\* A resync that is tried one miss early: consecutive_misses >= 2.
resync_after_two_misses == 3 - 1

\* Misses after which a resync is tried (consecutive_misses >= 3).
resync_after_misses == 3

\* ''.join(normalize_word(self.transcript_words[transcript_idx + i]) for i in range(join_count))
joined_words(words, transcript_idx, join_count) ==
    Join([i \in 1..join_count |-> normalize_word(word_at(words, transcript_idx + i - 1))])

SetMin(S) == CHOOSE v \in S : \A u \in S : v <= u
SetMax(S) == CHOOSE v \in S : \A u \in S : v >= u

\* The partial-match test: html_norm.startswith(trans_norm) and len(trans_norm) >= 3
prefix_match(html_norm, trans_norm) ==
    StartsWith(html_norm, trans_norm) /\ Len(trans_norm) >= 3

\* The diagnostics appended to self.mismatches.
SkippedDiag(from, to) == [kind |-> "Skipped transcript words", from |-> from, to |-> to]
ResyncDiag(from, to) == [kind |-> "Resync: jumped transcript", from |-> from, to |-> to]
NoMatchDiag(word) == [kind |-> "No match for HTML word", word |-> word]

\* What _find_matching_transcript_idx returns, with the object as it leaves
\* it.  `read` is the set of list indices the code has read when it returns.
Found(self, match_idx, num_consumed, strategy, read) ==
    [self |-> [self EXCEPT !.raised = @ \/ \E i \in read : index_error(self.transcript_words, i)],
     match_idx |-> match_idx, num_consumed |-> num_consumed, strategy |-> strategy]

\* The values of the loop variable for which each bounded scan runs its
\* body: those before the first one whose guard fails (the loop breaks there).
join_counts(t, n) ==
    {j \in join_count_range : \A u \in join_count_range : u <= j => compound_in_range(t, u, n)}

offsets(t, n) ==
    {o \in lookahead_range : \A u \in lookahead_range : u <= o => lookahead_in_range(t, u, n)}

looks(t, n) ==
    {k \in resync_range : \A u \in resync_range : u <= k => resync_in_range(t, u, n)}

\* The list indices the scans read.
join_read(t, n) == {t + i : i \in 0..(SetMax(join_counts(t, n) \cup {1}) - 1)}
offset_read(t, n) == {t + o : o \in offsets(t, n)}
look_read(t, n) == {t + k : k \in looks(t, n)}

\* The hits of each scan: the join counts, offsets and looks whose
\* transcript text equals or fuzzily matches html_norm.
join_hits(words, t, html_norm) ==
    {j \in join_counts(t, Len(words)) : matches(html_norm, joined_words(words, t, j))}

offset_hits(words, t, html_norm) ==
    {o \in offsets(t, Len(words)) : matches(html_norm, normalize_word(word_at(words, t + o)))}

look_hits(words, t, html_norm) ==
    {k \in looks(t, Len(words)) : matches(html_norm, normalize_word(word_at(words, t + k)))}

\* trans_norm after the lookahead loop: every iteration of the loop assigns
\* it, so the partial-match test that follows reads the last word the loop
\* looked at (the word at the cursor when the loop did not run).
last_trans_norm(words, t) ==
    normalize_word(word_at(words, t + SetMax(offsets(t, Len(words)) \cup {0})))

\* The chain of attempts of _find_matching_transcript_idx, given what each
\* attempt found; the first success returns.
first_success(self, t, n, html_norm, trans_norm, joins, ahead, last_norm, resyncs) ==
    IF html_norm = trans_norm
    THEN Found([self EXCEPT !.consecutive_misses = 0], t, 1, "exact", {t})
    ELSE IF fuzzy_match(html_norm, trans_norm)
    THEN Found([self EXCEPT !.consecutive_misses = 0], t, 1, "fuzzy", {t})
    ELSE IF joins # {}
    THEN Found([self EXCEPT !.consecutive_misses = 0], t, SetMin(joins), "compound",
               join_read(t, n))
    ELSE IF ahead # {}
    THEN Found([self EXCEPT !.consecutive_misses = 0,
                            !.mismatches = Append(@, SkippedDiag(t, t + SetMin(ahead) - 1)),
                            !.transcript_idx = t + SetMin(ahead)],
               t + SetMin(ahead), 1, "lookahead", join_read(t, n) \cup offset_read(t, n))
    ELSE IF prefix_match(html_norm, last_norm)
    THEN Found([self EXCEPT !.consecutive_misses = 0], t, 1, "prefix",
               join_read(t, n) \cup offset_read(t, n))
    ELSE IF self.consecutive_misses + 1 >= resync_after_misses /\ resyncs # {}
    THEN Found([self EXCEPT !.consecutive_misses = 0,
                            !.mismatches = Append(@, ResyncDiag(t, t + SetMin(resyncs))),
                            !.transcript_idx = t + SetMin(resyncs)],
               t + SetMin(resyncs), 1, "resync",
               join_read(t, n) \cup offset_read(t, n) \cup look_read(t, n))
    ELSE Found([self EXCEPT !.consecutive_misses = @ + 1], None, 0, "none",
               join_read(t, n) \cup offset_read(t, n)
                   \cup (IF self.consecutive_misses + 1 >= resync_after_misses
                         THEN look_read(t, n) ELSE {}))

\* find_normalized without the test for a transcript that is used up.
find_normalized_past_end(self, html_norm) ==
    IF html_norm = <<>> THEN Found(self, None, 0, "empty", {})
    ELSE first_success(self, self.transcript_idx, Len(self.transcript_words), html_norm,
                       normalize_word(word_at(self.transcript_words, self.transcript_idx)),
                       join_hits(self.transcript_words, self.transcript_idx, html_norm),
                       offset_hits(self.transcript_words, self.transcript_idx, html_norm),
                       last_trans_norm(self.transcript_words, self.transcript_idx),
                       look_hits(self.transcript_words, self.transcript_idx, html_norm))

\* _find_matching_transcript_idx(self, html_word), html_norm being
\* normalize_word(html_word).
find_normalized(self, html_norm) ==
    IF self.transcript_idx >= Len(self.transcript_words)
    THEN Found(self, None, 0, "exhausted", {})
    ELSE IF html_norm = <<>> THEN Found(self, None, 0, "empty", {})
    ELSE first_success(self, self.transcript_idx, Len(self.transcript_words), html_norm,
                       normalize_word(word_at(self.transcript_words, self.transcript_idx)),
                       join_hits(self.transcript_words, self.transcript_idx, html_norm),
                       offset_hits(self.transcript_words, self.transcript_idx, html_norm),
                       last_trans_norm(self.transcript_words, self.transcript_idx),
                       look_hits(self.transcript_words, self.transcript_idx, html_norm))

\* _find_matching_transcript_idx(self, html_word)
find_matching_transcript_idx(self, html_word) ==
    find_normalized(self, normalize_word(html_word))

(***************************************************************************)
(* Markup.  A document is a sequence of items, each with the form it has   *)
(* in the file:                                                            *)
(*   [k |-> "text", s]                      character data, as written      *)
(*   [k |-> "start", tag, attrs, selfclose] <tag a="v" b='v' c>, <tag/>     *)
(*   [k |-> "end", tag]                     </tag>                          *)
(*   [k |-> "comment", data]                <!--data-->                     *)
(*   [k |-> "decl", decl]                   <!decl>                         *)
(*   [k |-> "pi", data]                     <?data>                         *)
(* An attribute is [name, value, quote], quote "dq", "sq" or "none" (an    *)
(* attribute written without a value).                                     *)
(***************************************************************************)

Text(s) == [k |-> "text", s |-> s]
StartTag(tag, attrs) == [k |-> "start", tag |-> tag, attrs |-> attrs, selfclose |-> FALSE]
StartEndTag(tag, attrs) == [k |-> "start", tag |-> tag, attrs |-> attrs, selfclose |-> TRUE]
EndTag(tag) == [k |-> "end", tag |-> tag]
Comment(data) == [k |-> "comment", data |-> data]
Decl(decl) == [k |-> "decl", decl |-> decl]
PI(data) == [k |-> "pi", data |-> data]
Attr(name, value, quote) == [name |-> name, value |-> value, quote |-> quote]

\* str(i) for an int i >= 0: its decimal digits.
Digit(d) == <<"0", "1", "2", "3", "4", "5", "6", "7", "8", "9">>[d + 1]

RECURSIVE str(_)
str(i) == IF i < 10 THEN <<Digit(i)>> ELSE str(i \div 10) \o <<Digit(i % 10)>>

\* int(s) for a str of decimal digits.
DigitValue(c) == CHOOSE d \in 0..9 : Digit(d) = c

IsDigits(s) == s # <<>> /\ \A j \in 1..Len(s) : \E d \in 0..9 : Digit(d) = s[j]

RECURSIVE int(_)
int(s) == IF s = <<>> THEN 0 ELSE 10 * int(SubSeq(s, 1, Len(s) - 1)) + DigitValue(s[Len(s)])

\* The attribute class="w" of a word marker.
ClassW == Attr("class", <<"w">>, "dq")

\* f'<span class="w" data-i="{match_idx}">{escape(word)}</span>', and
\* f'<span class="w">{escape(word)}</span>' for match_idx None.
Marker(match_idx, word) ==
    <<StartTag("span", IF match_idx # None
                       THEN <<ClassW, Attr("data-i", str(match_idx), "dq")>>
                       ELSE <<ClassW>>),
      Text(escape(word)),
      EndTag("span")>>

\* ''.join(pieces): adjacent character data runs together.
RECURSIVE JoinItems(_)
JoinItems(items) ==
    IF items = <<>> THEN <<>>
    ELSE IF items[1].k = "text" /\ items[1].s = <<>> THEN JoinItems(Tail(items))
    ELSE IF Len(items) >= 2 /\ items[1].k = "text" /\ items[2].k = "text"
         THEN JoinItems(<<Text(items[1].s \o items[2].s)>> \o Drop(items, 3))
    ELSE <<items[1]>> \o JoinItems(Tail(items))

\* \s of the re module
IsSpace(c) == c \in {" ", "nl", "nbsp"}

\* The length of the run of white space, and of other characters, that s starts with.
SpaceRun(s) ==
    LET stops == {i \in 1..Len(s) : ~IsSpace(s[i])}
    IN  IF stops = {} THEN Len(s) ELSE SetMin(stops) - 1

WordRun(s) ==
    LET stops == {i \in 1..Len(s) : IsSpace(s[i])}
    IN  IF stops = {} THEN Len(s) ELSE SetMin(stops) - 1

\* str.split(): the maximal runs of non-space characters.
RECURSIVE split(_)
split(s) ==
    LET ws == SpaceRun(s)
        rest == Drop(s, ws + 1)
        w == WordRun(rest)
    IN  IF rest = <<>> THEN <<>>
        ELSE <<SubSeq(rest, 1, w)>> \o split(Drop(rest, w + 1))

(***************************************************************************)
(* TranscriptAlignedWrapper._wrap_words_aligned                            *)
(***************************************************************************)

\* wrap_found that moves the cursor past a transcript word on a miss.
wrap_found_skip_on_miss(f, word) ==
    IF f.match_idx # None
    THEN [self |-> [f.self EXCEPT !.transcript_idx = @ + f.num_consumed,
                                  !.wrapped_count = @ + 1],
          piece |-> Marker(f.match_idx, word),
          match_idx |-> f.match_idx, num_consumed |-> f.num_consumed,
          strategy |-> f.strategy]
    ELSE [self |-> [f.self EXCEPT !.mismatches = Append(@, NoMatchDiag(word)),
                                  !.transcript_idx = @ + 1],
          piece |-> Marker(None, word),
          match_idx |-> f.match_idx, num_consumed |-> f.num_consumed,
          strategy |-> f.strategy]

\* wrap_found that does not record the word without a match.
wrap_found_unrecorded(f, word) ==
    IF f.match_idx # None
    THEN [self |-> [f.self EXCEPT !.transcript_idx = @ + f.num_consumed,
                                  !.wrapped_count = @ + 1],
          piece |-> Marker(f.match_idx, word),
          match_idx |-> f.match_idx, num_consumed |-> f.num_consumed,
          strategy |-> f.strategy]
    ELSE [self |-> f.self,
          piece |-> Marker(None, word),
          match_idx |-> f.match_idx, num_consumed |-> f.num_consumed,
          strategy |-> f.strategy]

\* wrap_found that leaves a word without a match as plain text.
wrap_found_bare(f, word) ==
    IF f.match_idx # None
    THEN [self |-> [f.self EXCEPT !.transcript_idx = @ + f.num_consumed,
                                  !.wrapped_count = @ + 1],
          piece |-> Marker(f.match_idx, word),
          match_idx |-> f.match_idx, num_consumed |-> f.num_consumed,
          strategy |-> f.strategy]
    ELSE [self |-> [f.self EXCEPT !.mismatches = Append(@, NoMatchDiag(word))],
          piece |-> <<Text(escape(word))>>,
          match_idx |-> f.match_idx, num_consumed |-> f.num_consumed,
          strategy |-> f.strategy]

\* wrap_found with `self.transcript_idx += 1` in place of `+= num_consumed`.
wrap_found_by_one(f, word) ==
    IF f.match_idx # None
    THEN [self |-> [f.self EXCEPT !.transcript_idx = @ + 1,
                                  !.wrapped_count = @ + 1],
          piece |-> Marker(f.match_idx, word),
          match_idx |-> f.match_idx, num_consumed |-> f.num_consumed,
          strategy |-> f.strategy]
    ELSE [self |-> [f.self EXCEPT !.mismatches = Append(@, NoMatchDiag(word))],
          piece |-> Marker(None, word),
          match_idx |-> f.match_idx, num_consumed |-> f.num_consumed,
          strategy |-> f.strategy]

\* wrap_found with `self.transcript_idx = num_consumed` in place of `+=`.
wrap_found_assign(f, word) ==
    IF f.match_idx # None
    THEN [self |-> [f.self EXCEPT !.transcript_idx = f.num_consumed,
                                  !.wrapped_count = @ + 1],
          piece |-> Marker(f.match_idx, word),
          match_idx |-> f.match_idx, num_consumed |-> f.num_consumed,
          strategy |-> f.strategy]
    ELSE [self |-> [f.self EXCEPT !.mismatches = Append(@, NoMatchDiag(word))],
          piece |-> Marker(None, word),
          match_idx |-> f.match_idx, num_consumed |-> f.num_consumed,
          strategy |-> f.strategy]

\* The body of the loop after the call of _find_matching_transcript_idx,
\* which returned f: the word is wrapped with or without data-i, and the
\* cursor advanced by num_consumed.
wrap_found(f, word) ==
    IF f.match_idx # None
    THEN [self |-> [f.self EXCEPT !.transcript_idx = @ + f.num_consumed,
                                  !.wrapped_count = @ + 1],
          piece |-> Marker(f.match_idx, word),
          match_idx |-> f.match_idx, num_consumed |-> f.num_consumed,
          strategy |-> f.strategy]
    ELSE [self |-> [f.self EXCEPT !.mismatches = Append(@, NoMatchDiag(word))],
          piece |-> Marker(None, word),
          match_idx |-> f.match_idx, num_consumed |-> f.num_consumed,
          strategy |-> f.strategy]

\* One iteration of the loop of _wrap_words_aligned over re.finditer.
wrap_word(self, word) == wrap_found(find_matching_transcript_idx(self, word), word)

\* SimpleWordWrapper._wrap_words, one iteration: the words are numbered.
wrap_word_simple(self, word) ==
    [self |-> [self EXCEPT !.word_index = @ + 1],
     piece |-> Marker(self.word_index, word)]

\* The loop of _wrap_words_aligned / _wrap_words over r'(\s*)(\S+)': the
\* white space is copied, each word is wrapped, the text after the last
\* word is copied.  `pieces` is the list `result` so far; the value is the
\* object and the pieces of the result.
RECURSIVE wrap_words(_, _, _)
wrap_next(one, text, pieces) ==
    wrap_words(one.self,
               Drop(text, SpaceRun(text) + WordRun(Drop(text, SpaceRun(text) + 1)) + 1),
               pieces \o <<Text(SubSeq(text, 1, SpaceRun(text)))>> \o one.piece)

next_word(text) ==
    SubSeq(text, SpaceRun(text) + 1, SpaceRun(text) + WordRun(Drop(text, SpaceRun(text) + 1)))

wrap_words(self, text, pieces) ==
    IF SpaceRun(text) = Len(text) THEN [self |-> self, pieces |-> Append(pieces, Text(text))]
    ELSE IF self.aligned
         THEN wrap_next(wrap_word(self, next_word(text)), text, pieces)
         ELSE wrap_next(wrap_word_simple(self, next_word(text)), text, pieces)

(***************************************************************************)
(* The HTMLParser handlers of TranscriptAlignedWrapper / SimpleWordWrapper *)
(* (the two classes have the same handlers; `aligned` tells them apart).   *)
(***************************************************************************)

SKIP_TAGS == {"script", "style", "code", "pre", "span"}

\* HTMLParser.CDATA_CONTENT_ELEMENTS
CDATA_CONTENT_ELEMENTS == {"script", "style"}

\* The str "content"
ContentClass == <<"c", "o", "n", "t", "e", "n", "t">>

\* str.lower() of a tag or attribute name, as the parser applies it.
NameLower(name) ==
    CASE name = "DIV" -> "div"
      [] name = "P"   -> "p"
      [] name = "BR"  -> "br"
      [] OTHER        -> name

\* __init__ of the two wrapper classes.
NewWrapper(transcript_words, aligned) ==
    [aligned |-> aligned,
     output |-> <<>>,
     transcript_words |-> transcript_words,
     transcript_idx |-> 0,
     tag_stack |-> <<>>,
     in_content_div |-> FALSE,
     skip_depth |-> 0,
     content_div_depth |-> 0,
     wrapped_count |-> 0,
     mismatches |-> <<>>,
     text_buffer |-> <<>>,
     consecutive_misses |-> 0,
     word_index |-> 0,
     cdata_elem |-> "",
     raised |-> FALSE]

\* output.append(self._wrap_words_aligned(self.text_buffer)); text_buffer = ""
append_wrapped(r) == [r.self EXCEPT !.output = @ \o r.pieces, !.text_buffer = <<>>]

\* _flush_buffer
flush_buffer(self) ==
    IF self.text_buffer = <<>> THEN self
    ELSE IF self.in_content_div /\ self.skip_depth = 0
         THEN append_wrapped(wrap_words(self, self.text_buffer, <<>>))
    ELSE [self EXCEPT !.output = Append(@, Text(self.text_buffer)), !.text_buffer = <<>>]

\* The (name, value) pairs parse_starttag hands to handle_starttag: the name
\* in lower case, the value without its quotes and with references replaced.
parsed_attrs(attrs) ==
    [j \in 1..Len(attrs) |->
        [name |-> NameLower(attrs[j].name), value |-> unescape(attrs[j].value)]]

\* attrs_str of handle_starttag: ' k="escape(v)"' if v else ' k'
attrs_str(attrs) ==
    [j \in 1..Len(attrs) |->
        IF attrs[j].value # <<>>
        THEN Attr(attrs[j].name, escape(attrs[j].value), "dq")
        ELSE Attr(attrs[j].name, <<>>, "none")]

\* k == 'class' and v and 'content' in v.split(), for some attribute
has_content_class(attrs) ==
    \E j \in 1..Len(attrs) :
        /\ attrs[j].name = "class"
        /\ attrs[j].value # <<>>
        /\ \E w \in 1..Len(split(attrs[j].value)) : split(attrs[j].value)[w] = ContentClass

\* handle_starttag(tag, attrs), after its call of _flush_buffer.
starttag_flushed(self, tag, attrs) ==
    [self EXCEPT !.in_content_div = IF tag = "div" /\ has_content_class(attrs) THEN TRUE ELSE @,
                 !.content_div_depth = IF tag = "div" /\ has_content_class(attrs)
                                       THEN Len(self.tag_stack) + 1 ELSE @,
                 !.tag_stack = Append(@, tag),
                 !.skip_depth = IF tag \in SKIP_TAGS THEN @ + 1 ELSE @,
                 !.output = Append(@, StartTag(tag, attrs_str(attrs)))]

\* handle_starttag(tag, attrs)
handle_starttag(self, tag, attrs) == starttag_flushed(flush_buffer(self), tag, attrs)

\* self.tag_stack after `if self.tag_stack and self.tag_stack[-1] == tag: pop()`
popped(tag_stack, tag) ==
    IF tag_stack # <<>> /\ tag_stack[Len(tag_stack)] = tag
    THEN SubSeq(tag_stack, 1, Len(tag_stack) - 1)
    ELSE tag_stack

\* The test that ends the content div: the tag is div, in_content_div is set
\* and the stack is shorter than content_div_depth.
leaves_content(self, tag) ==
    /\ tag = "div"
    /\ self.in_content_div
    /\ Len(popped(self.tag_stack, tag)) < self.content_div_depth

\* endtag_flushed that leaves every skip region at the first closing tag.
endtag_flushed_leaves_all(self, tag) ==
    [self EXCEPT !.tag_stack = popped(@, tag),
                 !.skip_depth = IF tag \in SKIP_TAGS THEN 0 ELSE @,
                 !.in_content_div = IF leaves_content(self, tag) THEN FALSE ELSE @,
                 !.content_div_depth = IF leaves_content(self, tag) THEN 0 ELSE @,
                 !.output = Append(@, EndTag(tag))]

\* handle_endtag(tag), after its call of _flush_buffer.
endtag_flushed(self, tag) ==
    [self EXCEPT !.tag_stack = popped(@, tag),
                 !.skip_depth = IF tag \in SKIP_TAGS /\ @ > 0 THEN @ - 1 ELSE @,
                 !.in_content_div = IF leaves_content(self, tag) THEN FALSE ELSE @,
                 !.content_div_depth = IF leaves_content(self, tag) THEN 0 ELSE @,
                 !.output = Append(@, EndTag(tag))]

\* handle_endtag(tag)
handle_endtag(self, tag) == endtag_flushed(flush_buffer(self), tag)

\* handle_data(data)
handle_data(self, data) == [self EXCEPT !.text_buffer = @ \o data]

\* handle_comment(data)
handle_comment(self, data) ==
    [flush_buffer(self) EXCEPT !.output = Append(@, Comment(data))]

\* handle_decl(decl)
handle_decl(self, decl) ==
    [flush_buffer(self) EXCEPT !.output = Append(@, Decl(decl))]

\* get_output(): the buffer is flushed and the pieces are joined.
get_output(self) == JoinItems(flush_buffer(self).output)

\* HTMLParser.goahead on one item of the document: the handler calls it makes.
\* Character data has its references replaced (convert_charrefs is left at
\* its default, True) unless it is the content of a script or style element.
parse_text(self, item) ==
    handle_data(self, IF self.cdata_elem # "" THEN item.s ELSE unescape(item.s))

\* parse_starttag for <tag ...>: handle_starttag, then set_cdata_mode for a
\* script or style element.
parse_starttag(self, item) ==
    [handle_starttag(self, NameLower(item.tag), parsed_attrs(item.attrs))
        EXCEPT !.cdata_elem = IF NameLower(item.tag) \in CDATA_CONTENT_ELEMENTS
                              THEN NameLower(item.tag) ELSE @]

\* parse_starttag for <tag .../>: handle_startendtag, which calls
\* handle_starttag and handle_endtag.
parse_startendtag(self, item) ==
    handle_endtag(handle_starttag(self, NameLower(item.tag), parsed_attrs(item.attrs)),
                  NameLower(item.tag))

\* parse_endtag: handle_endtag, and clear_cdata_mode.
parse_endtag(self, item) ==
    [handle_endtag(self, NameLower(item.tag)) EXCEPT !.cdata_elem = ""]

\* parse_comment, and parse_html_declaration for <!decl>
parse_comment(self, item) == handle_comment(self, item.data)

parse_html_declaration(self, item) == handle_decl(self, item.decl)

\* parse_pi calls handle_pi, which the wrappers do not override: the
\* processing instruction is neither flushed before nor written.
parse_pi(self, item) == self

goahead(self, item) ==
    CASE item.k = "text" -> parse_text(self, item)
      [] item.k = "start" /\ item.selfclose -> parse_startendtag(self, item)
      [] item.k = "start" /\ ~item.selfclose -> parse_starttag(self, item)
      [] item.k = "end" -> parse_endtag(self, item)
      [] item.k = "comment" -> parse_comment(self, item)
      [] item.k = "decl" -> parse_html_declaration(self, item)
      [] item.k = "pi" -> parse_pi(self, item)

\* wrapper.feed(content); wrapper.get_output()
RECURSIVE feed(_, _)
feed(self, rawdata) ==
    IF rawdata = <<>> THEN self ELSE feed(goahead(self, Head(rawdata)), Tail(rawdata))

(***************************************************************************)
(* unwrap_chapter_html and process_chapter                                 *)
(***************************************************************************)

\* An item that the pattern <span class="w"(?: data-i="\d+")?> matches.
is_marker_start(item) ==
    /\ item.k = "start"
    /\ item.tag = "span"
    /\ ~item.selfclose
    /\ \/ item.attrs = <<ClassW>>
       \/ /\ Len(item.attrs) = 2
          /\ item.attrs[1] = ClassW
          /\ item.attrs[2].name = "data-i"
          /\ item.attrs[2].quote = "dq"
          /\ IsDigits(item.attrs[2].value)

\* The items (.*?) may match: `.` matches no line break.
has_newline(item) == item.k = "text" /\ \E j \in 1..Len(item.s) : item.s[j] = "nl"

\* re.sub(r'<span class="w"(?: data-i="\d+")?>(.*?)</span>', r'\1', html_content):
\* from the left, each marker start is removed together with the first
\* </span> after it on the same line.
RECURSIVE unwrap_chapter_html(_)
unwrap_chapter_html(html_content) ==
    IF html_content = <<>> THEN <<>>
    ELSE LET closes == {j \in 2..Len(html_content) :
                          /\ html_content[j] = EndTag("span")
                          /\ \A i \in 2..(j - 1) : ~has_newline(html_content[i])}
         IN  IF is_marker_start(Head(html_content)) /\ closes # {}
             THEN SubSeq(html_content, 2, SetMin(closes) - 1)
                  \o unwrap_chapter_html(Drop(html_content, SetMin(closes) + 1))
             ELSE <<Head(html_content)>> \o unwrap_chapter_html(Tail(html_content))

\* already_wrapped that looks for a marker with data-i only.
already_wrapped_indexed(content) ==
    \E j \in 1..Len(content) :
        /\ content[j].k = "start"
        /\ Len(content[j].attrs) = 2
        /\ content[j].attrs[1] = ClassW
        /\ content[j].attrs[2].name = "data-i"

\* 'class="w"' in content
already_wrapped(content) ==
    \E j \in 1..Len(content) :
        /\ content[j].k = "start"
        /\ \E a \in 1..Len(content[j].attrs) : content[j].attrs[a] = ClassW

\* The stats dict process_chapter starts from.
new_stats == [wrapped |-> 0, transcript_words |-> 0, mismatches |-> <<>>, status |-> "skipped"]

\* wrapper.mismatches[:10]
first_ten(mismatches) == SubSeq(mismatches, 1, Min(10, Len(mismatches)))

(***************************************************************************)
(* scripts/export-word-timing.py, the timing exporter.  A time is a whole  *)
(* number of milliseconds.  The quotient section_break_total /             *)
(* num_sections is kept exact: what the script adds to a raw time is       *)
(* carried as a numerator over offset_scale = max(1, num_sections).        *)
(***************************************************************************)

\* str.strip(): leading and trailing white space removed.
strip_space(s) ==
    IF \A j \in 1..Len(s) : IsSpace(s[j]) THEN <<>>
    ELSE SubSeq(s, SetMin({j \in 1..Len(s) : ~IsSpace(s[j])}),
                   SetMax({j \in 1..Len(s) : ~IsSpace(s[j])}))

\* round(num / den): the nearest whole number, a tie going to the even one.
\* round(x, 3) of a time x in seconds is round_div of x in milliseconds.
round_div(num, den) ==
    IF 2 * (num % den) < den THEN num \div den
    ELSE IF 2 * (num % den) > den THEN (num \div den) + 1
    ELSE IF (num \div den) % 2 = 0 THEN num \div den
    ELSE (num \div den) + 1

\* What get_chapter_calibration returns for a chapter without manifest entry.
no_calibration == [intro_offset |-> 0, final_duration |-> 0, sections |-> <<>>]

\* The manifest is a function from chapter numbers (the keys that start with
\* chapter-NN-) to their entries.
get_chapter_calibration(manifest, chapter_num) ==
    IF chapter_num \in DOMAIN manifest
    THEN [intro_offset |-> manifest[chapter_num].intro_offset,
          final_duration |-> manifest[chapter_num].duration,
          sections |-> manifest[chapter_num].sections]
    ELSE no_calibration

num_sections(calibration) == Len(calibration.sections)

section_break_total(data, calibration) ==
    Max(0, calibration.final_duration - data.duration - calibration.intro_offset)

\* The denominator of the times the exporter computes.
offset_scale(calibration) == Max(1, num_sections(calibration))

\* section_raw_starts, each entry times num_sections.
section_raw_starts(data, calibration) ==
    IF num_sections(calibration) > 0 /\ data.duration > 0
    THEN [i \in 1..num_sections(calibration) |->
            Max(0, num_sections(calibration)
                       * (calibration.sections[i].timestamp - calibration.intro_offset)
                   - (i - 1) * section_break_total(data, calibration))]
    ELSE <<>>

\* breaks_passed, counting the raw starts that raw_time has not reached.
breaks_ahead(starts, scale, raw_time) ==
    Cardinality({i \in 1..Len(starts) : scale * raw_time < starts[i]})

\* breaks_passed of calc_offset: the raw starts that raw_time has reached.
breaks_passed(starts, scale, raw_time) ==
    Cardinality({i \in 1..Len(starts) : scale * raw_time >= starts[i]})

\* calc_offset adding the whole section-break time to every raw time.
calc_offset_all_breaks(data, calibration, raw_time) ==
    offset_scale(calibration)
        * (calibration.intro_offset + section_break_total(data, calibration))

\* calc_offset(raw_time), times offset_scale.
calc_offset(data, calibration, raw_time) ==
    offset_scale(calibration) * calibration.intro_offset
    + (IF num_sections(calibration) > 0 /\ section_break_total(data, calibration) > 0
       THEN breaks_passed(section_raw_starts(data, calibration),
                          num_sections(calibration), raw_time)
            * section_break_total(data, calibration)
       ELSE 0)

\* The triple of a word, the end taken as it is in the transcript.
shifted_start_only(scale, offset, word_data) ==
    <<round_div(scale * word_data.start + offset, scale),
      word_data.end,
      strip_space(word_data.word)>>

\* The triple appended for a word: start and end moved by the offset of the
\* start, rounded to the millisecond.
shifted(scale, offset, word_data) ==
    <<round_div(scale * word_data.start + offset, scale),
      round_div(scale * word_data.end + offset, scale),
      strip_space(word_data.word)>>

\* The words of all segments, in order: the two nested loops.
RECURSIVE segment_words(_)
segment_words(segments) ==
    IF segments = <<>> THEN <<>>
    ELSE Head(segments).words \o segment_words(Tail(segments))

\* word_data["word"], ["start"] or ["end"] raises KeyError: the entry lacks
\* the key.  Start and end are read only for a word that is not blank.
key_error(word_data) ==
    \/ "word" \notin DOMAIN word_data
    \/ /\ strip_space(word_data.word) # <<>>
       /\ ~({"start", "end"} \subseteq DOMAIN word_data)

\* process_transcript raises instead of returning.
transcript_raises(data) ==
    \E k \in 1..Len(segment_words(data.segments)) :
        key_error(segment_words(data.segments)[k])

\* The list words of process_transcript, for the word entries rest.
RECURSIVE exported_words(_, _, _)
exported_words(data, calibration, rest) ==
    IF rest = <<>> THEN <<>>
    ELSE IF strip_space(Head(rest).word) = <<>>
    THEN exported_words(data, calibration, Tail(rest))
    ELSE <<shifted(offset_scale(calibration),
                   calc_offset(data, calibration, Head(rest).start), Head(rest))>>
         \o exported_words(data, calibration, Tail(rest))

\* The dict process_transcript returns, given its list words.
word_timing(chapter_num, data, calibration, words) ==
    [chapter |-> chapter_num,
     duration |-> IF calibration.final_duration # 0
                  THEN calibration.final_duration ELSE data.duration,
     word_count |-> Len(words),
     calibration |-> [intro_offset |-> calibration.intro_offset,
                      section_break_total |->
                          100 * round_div(section_break_total(data, calibration), 100),
                      num_sections |-> num_sections(calibration)],
     words |-> words]

process_transcript(chapter_num, data, calibration) ==
    word_timing(chapter_num, data, calibration,
                exported_words(data, calibration, segment_words(data.segments)))

(***************************************************************************)
(* scripts/validate-word-sync.py, the sync validator.                      *)
(***************************************************************************)

\* The characters of the strip() call of the validator's normalize_word.
SyncStripChars == {".", ",", "!", "?", "\"", "'", "-", ":", ";", "(", ")", "[", "]"}

\* s.strip(chars)
strip_of(s, chars) ==
    IF \A j \in 1..Len(s) : s[j] \in chars THEN <<>>
    ELSE SubSeq(s, SetMin({j \in 1..Len(s) : s[j] \notin chars}),
                   SetMax({j \in 1..Len(s) : s[j] \notin chars}))

\* normalize_word of validate-word-sync.py.
sync_normalize_word(word) == strip_of(lower(unescape(word)), SyncStripChars)

\* The blocks that a[alo..ahi] and b[blo..bhi] have in common: <<i, j, k>>
\* stands for the k characters from a[i] on, equal to those from b[j] on.
common_blocks(a, b, alo, ahi, blo, bhi) ==
    {m \in (alo..ahi) \X (blo..bhi) \X (1..(ahi - alo + 1)) :
        /\ m[1] + m[3] - 1 <= ahi
        /\ m[2] + m[3] - 1 <= bhi
        /\ SubSeq(a, m[1], m[1] + m[3] - 1) = SubSeq(b, m[2], m[2] + m[3] - 1)}

\* SequenceMatcher.find_longest_match: the longest block, of the longest the
\* one that starts earliest in a, and of those the one earliest in b.
find_longest_match(blocks) ==
    CHOOSE m \in blocks : \A o \in blocks :
        \/ m[3] > o[3]
        \/ /\ m[3] = o[3]
           /\ \/ m[1] < o[1]
              \/ m[1] = o[1] /\ m[2] <= o[2]

\* SequenceMatcher.get_matching_blocks, summed: the longest block, and the
\* same to the left and to the right of it.
RECURSIVE matches_size(_, _, _, _, _, _)
matches_around(a, b, alo, ahi, blo, bhi, m) ==
    m[3] + matches_size(a, b, alo, m[1] - 1, blo, m[2] - 1)
         + matches_size(a, b, m[1] + m[3], ahi, m[2] + m[3], bhi)

matches_size(a, b, alo, ahi, blo, bhi) ==
    IF common_blocks(a, b, alo, ahi, blo, bhi) = {} THEN 0
    ELSE matches_around(a, b, alo, ahi, blo, bhi,
                        find_longest_match(common_blocks(a, b, alo, ahi, blo, bhi)))

\* SequenceMatcher(None, a, b).ratio() is 2.0 * matches / length, and 1.0 for
\* two empty strings; ratio_hundredths is round(ratio, 2), times 100.
ratio_hundredths(a, b) ==
    IF Len(a) + Len(b) = 0 THEN 100
    ELSE round_div(200 * matches_size(a, b, 1, Len(a), 1, Len(b)), Len(a) + Len(b))

\* ratio < 0.6
ratio_below_threshold(a, b) ==
    /\ Len(a) + Len(b) > 0
    /\ 10 * matches_size(a, b, 1, Len(a), 1, Len(b)) < 3 * (Len(a) + Len(b))

\* The pattern <span class="w"(?: data-i="(\d+)")?>([^<]+)</span> matches at
\* the first item of content.
marker_match(content) ==
    /\ Len(content) >= 3
    /\ is_marker_start(content[1])
    /\ content[2].k = "text"
    /\ content[2].s # <<>>
    /\ \A j \in 1..Len(content[2].s) : content[2].s[j] # "<"
    /\ content[3] = EndTag("span")

\* load_html_words: (word_text, data_i) of every match, in order.
RECURSIVE load_html_words(_)
load_html_words(content) ==
    IF content = <<>> THEN <<>>
    ELSE IF marker_match(content)
    THEN <<[word_text |-> unescape(content[2].s),
            data_i |-> IF Len(content[1].attrs) = 2
                       THEN int(content[1].attrs[2].value) ELSE None]>>
         \o load_html_words(Drop(content, 4))
    ELSE load_html_words(Tail(content))

\* The k-th smallest element of a set of numbers.
Kth(S, k) == CHOOSE i \in S : Cardinality({j \in S : j < i}) = k - 1

\* The first loop of find_mismatches, over the positions without data-i.
dead_word_records(html_words, at) ==
    [k \in 1..Cardinality(at) |->
        [html_index |-> Kth(at, k) - 1, word |-> html_words[Kth(at, k)].word_text]]

\* The test of the second loop on one word: it has an index, the index is
\* in the transcript, and the normalized words are not similar.
is_mismatch(transcript, w) ==
    /\ w.data_i # None
    /\ w.data_i < Len(transcript)
    /\ ratio_below_threshold(sync_normalize_word(w.word_text),
                             sync_normalize_word(transcript[w.data_i + 1]))
    /\ sync_normalize_word(w.word_text) # sync_normalize_word(transcript[w.data_i + 1])

\* The second loop of find_mismatches, over the positions at.
mismatch_records(transcript, html_words, at) ==
    [k \in 1..Cardinality(at) |->
        [data_i |-> html_words[Kth(at, k)].data_i,
         html_word |-> html_words[Kth(at, k)].word_text,
         transcript_word |-> transcript[html_words[Kth(at, k)].data_i + 1],
         similarity |->
            ratio_hundredths(
                sync_normalize_word(html_words[Kth(at, k)].word_text),
                sync_normalize_word(transcript[html_words[Kth(at, k)].data_i + 1]))]]

\* The summary warnings of find_mismatches.
summary_warnings(dead, mismatched) ==
    (IF Len(dead) > 10 THEN <<<<"words without data-i", Len(dead)>>>> ELSE <<>>)
    \o (IF mismatched # <<>> THEN <<<<"HTML/transcript mismatches", Len(mismatched)>>>>
        ELSE <<>>)

\* results of find_mismatches, given the lists of the two loops.
results_of(errors, dead, mismatched) ==
    [errors |-> errors, warnings |-> summary_warnings(dead, mismatched),
     dead_words |-> dead, mismatches |-> mismatched]

\* find_mismatches that lists a marker whose index is past the end of the
\* transcript among the dead words.
find_mismatches_dead_past_end(transcript, html_words) ==
    IF transcript = <<>> THEN results_of(<<"No transcript found">>, <<>>, <<>>)
    ELSE IF html_words = <<>> THEN results_of(<<"No HTML found">>, <<>>, <<>>)
    ELSE results_of(<<>>,
            dead_word_records(html_words,
                       {i \in 1..Len(html_words) :
                           \/ html_words[i].data_i = None
                           \/ html_words[i].data_i >= Len(transcript)}),
            mismatch_records(transcript, html_words,
                       {i \in 1..Len(html_words) : is_mismatch(transcript, html_words[i])}))

\* find_mismatches, given what load_transcript_words and load_html_words
\* returned; a missing file and an empty list are both "not transcript".
find_mismatches(transcript, html_words) ==
    IF transcript = <<>> THEN results_of(<<"No transcript found">>, <<>>, <<>>)
    ELSE IF html_words = <<>> THEN results_of(<<"No HTML found">>, <<>>, <<>>)
    ELSE results_of(<<>>,
            dead_word_records(html_words,
                       {i \in 1..Len(html_words) : html_words[i].data_i = None}),
            mismatch_records(transcript, html_words,
                       {i \in 1..Len(html_words) : is_mismatch(transcript, html_words[i])}))

\* The first line print_report prints for a chapter.
report_status(results) ==
    IF results.errors # <<>> THEN "ERRORS"
    ELSE IF results.warnings # <<>> THEN "WARNINGS" ELSE "OK"

\* The status main returns, with every mismatch counted.
exit_status_counting_dead(mismatch_total, dead_total) ==
    IF mismatch_total > 0 \/ dead_total > 0 THEN 1 ELSE 0

\* The status main returns.
exit_status(mismatch_total, dead_total) ==
    IF mismatch_total = 0 /\ dead_total = 0 THEN 0
    ELSE IF mismatch_total > 0 THEN 1 ELSE 0

(***************************************************************************)
(* src/simulacrum/types.py, the type guards of the world state.            *)
(*                                                                         *)
(* The guards look at the type of a value and, of a dict, at the types of  *)
(* some of its keys, never at the contents.  A value is modelled by what   *)
(* they look at: [t |-> its type] ("dict", "list", "str", "int", "none"),  *)
(* a character or event with the type of each key the guards read          *)
(* ("absent" for a key the dict does not have), the world state with its   *)
(* "characters" and "events" as [t |-> type, items |-> the elements].      *)
(***************************************************************************)

\* isinstance(data.get(key), str)
is_str(field) == field = "str"

\* "key" in data and not isinstance(data["key"], list)
present_not_list(field) == field # "absent" /\ field # "list"

\* is_character_dict without the test of knowledge.
is_character_dict_knowledge_unchecked(data) ==
    IF data.t # "dict" THEN FALSE
    ELSE IF ~is_str(data.name) THEN FALSE
    ELSE IF present_not_list(data.personality) THEN FALSE
    ELSE IF present_not_list(data.secrets) THEN FALSE
    ELSE TRUE

is_character_dict(data) ==
    IF data.t # "dict" THEN FALSE
    ELSE IF ~is_str(data.name) THEN FALSE
    ELSE IF present_not_list(data.personality) THEN FALSE
    ELSE IF present_not_list(data.secrets) THEN FALSE
    ELSE IF present_not_list(data.knowledge) THEN FALSE
    ELSE TRUE

is_event_dict(data) ==
    IF data.t # "dict" THEN FALSE
    ELSE IF ~is_str(data.description) THEN FALSE
    ELSE IF present_not_list(data.participants) THEN FALSE
    ELSE IF present_not_list(data.witnesses) THEN FALSE
    ELSE TRUE

is_world_state_dict(data) ==
    IF data.t # "dict" THEN FALSE
    ELSE IF data.characters.t # "absent" /\ data.characters.t # "list" THEN FALSE
    ELSE IF /\ data.characters.t # "absent"
            /\ \E j \in 1..Len(data.characters.items) :
                  ~is_character_dict(data.characters.items[j]) THEN FALSE
    ELSE IF data.events.t # "absent" /\ data.events.t # "list" THEN FALSE
    ELSE IF /\ data.events.t # "absent"
            /\ \E j \in 1..Len(data.events.items) :
                  ~is_event_dict(data.events.items[j]) THEN FALSE
    ELSE TRUE

\* validate_world_state: what it returns, or the exception it raises.
validate_world_state(data) ==
    IF ~is_world_state_dict(data) THEN [raised |-> "ValueError", value |-> <<>>]
    ELSE [raised |-> "", value |-> <<data>>]

(***************************************************************************)
(* src/simulacrum/audio/budget.py, the audio budget manager.               *)
(*                                                                         *)
(* `self` is the AudioBudgetManager object, [usage, queue]; the budgets    *)
(* are DEFAULT_BUDGETS and the date is that of one day, today.             *)
(***************************************************************************)

\* float("inf"), the limit of a provider without limits.
inf == -2

\* limit == float("inf")
unlimited(limit) == limit = inf

\* amount > limit
exceeds(amount, limit) == ~unlimited(limit) /\ amount > limit

\* The limits of DEFAULT_BUDGETS.
DEFAULT_BUDGETS ==
    ("elevenlabs_starter" :> [monthly_limit |-> 30000, daily_limit |-> 2000])
    @@ ("elevenlabs_creator" :> [monthly_limit |-> 100000, daily_limit |-> 5000])
    @@ ("elevenlabs_v3_alpha" :> [monthly_limit |-> 150000, daily_limit |-> 10000])
    @@ ("openai_tts" :> [monthly_limit |-> 1000000, daily_limit |-> 50000])
    @@ ("macos_native" :> [monthly_limit |-> inf, daily_limit |-> inf])

\* date.today(): its strftime("%Y-%m") and its isoformat().
today == [month |-> "2025-11", date |-> "2025-11-02"]

\* UsageTracker(...) of get_usage.
new_tracker(provider) ==
    [provider |-> provider, month |-> today.month, monthly_used |-> 0, daily_used |-> 0,
     last_reset_date |-> today.date, history |-> <<>>]

\* get_usage: self.usage after the call (the tracker is self.usage[provider]).
get_usage(self, provider) ==
    IF provider \notin DOMAIN self.usage
    THEN [self EXCEPT !.usage = (provider :> new_tracker(provider)) @@ self.usage]
    ELSE self

check_and_reset_daily(tracker) ==
    IF tracker.last_reset_date # today.date
    THEN [tracker EXCEPT !.daily_used = 0, !.last_reset_date = today.date]
    ELSE tracker

check_and_reset_monthly(tracker) ==
    IF tracker.month # today.month
    THEN [tracker EXCEPT !.month = today.month, !.monthly_used = 0]
    ELSE tracker

\* The first three statements of can_use and of record_usage, after the
\* test of the provider: the tracker is got or made, and reset if due.
tracked(self, provider) ==
    [get_usage(self, provider) EXCEPT !.usage[provider] =
        check_and_reset_monthly(check_and_reset_daily(@))]

\* The test of the monthly limit alone.
within_monthly_limit(tracker, budget, chars) ==
    IF exceeds(tracker.monthly_used + chars, budget.monthly_limit)
    THEN [ok |-> FALSE, reason |-> "Monthly limit exceeded"]
    ELSE [ok |-> TRUE, reason |-> "OK"]

\* The tests of can_use on the tracker of the provider.
within_limits(tracker, budget, chars) ==
    IF exceeds(tracker.monthly_used + chars, budget.monthly_limit)
    THEN [ok |-> FALSE, reason |-> "Monthly limit exceeded"]
    ELSE IF exceeds(tracker.daily_used + chars, budget.daily_limit)
    THEN [ok |-> FALSE, reason |-> "Daily limit exceeded"]
    ELSE [ok |-> TRUE, reason |-> "OK"]

\* can_use: the tuple it returns.
can_use(self, provider, chars) ==
    IF provider \notin DOMAIN DEFAULT_BUDGETS
    THEN [ok |-> FALSE, reason |-> "Unknown provider"]
    ELSE within_limits(tracked(self, provider).usage[provider],
                       DEFAULT_BUDGETS[provider], chars)

\* can_use: self after the call.
after_can_use(self, provider) ==
    IF provider \notin DOMAIN DEFAULT_BUDGETS THEN self ELSE tracked(self, provider)

\* The tracker after the three assignments of record_usage.
recorded(tracker, chars, doc) ==
    [tracker EXCEPT !.monthly_used = @ + chars,
                    !.daily_used = @ + chars,
                    !.history = Append(@, [date |-> today.date, chars |-> chars, doc |-> doc])]

\* record_usage: self after the call (and the config it saves).
record_usage(self, provider, chars, doc) ==
    [tracked(self, provider) EXCEPT !.usage[provider] = recorded(@, chars, doc)]

\* add_to_queue: self after the call (and the config it saves).
add_to_queue(self, doc_path, provider, priority, estimated_chars) ==
    [self EXCEPT !.queue = Append(@,
        [job_id |-> Len(self.queue), doc_path |-> doc_path, provider |-> provider,
         priority |-> priority, estimated_chars |-> estimated_chars,
         status |-> "queued"])]

\* priority_order.get(j.priority, 99)
priority_order(priority) ==
    CASE priority = "urgent" -> 0
      [] priority = "high"   -> 1
      [] priority = "medium" -> 2
      [] priority = "low"    -> 3
      [] OTHER               -> 99

\* The sort key of the job at position i of the queue: list.sort is stable,
\* jobs of one priority stay in the order of the queue.
sort_key(jobs, i) == priority_order(jobs[i].priority) * (Len(jobs) + 1) + i

\* queued_jobs of process_queue after the sort, as positions in the queue.
queued_jobs(jobs) ==
    [k \in 1..Cardinality({i \in 1..Len(jobs) : jobs[i].status = "queued"}) |->
        Kth({sort_key(jobs, i) : i \in {j \in 1..Len(jobs) : jobs[j].status = "queued"}}, k)
        % (Len(jobs) + 1)]

\* The loop of process_queue from the k-th of the jobs on: self and the
\* list processed when it ends.
RECURSIVE process_jobs(_, _, _, _, _)
process_job(self, jobs, k, dry, done, job) ==
    IF can_use(self, job.provider, job.estimated_chars).ok
    THEN process_jobs(
            IF dry THEN after_can_use(self, job.provider)
            ELSE [record_usage(after_can_use(self, job.provider), job.provider,
                               job.estimated_chars, job.doc_path)
                    EXCEPT !.queue[jobs[k]].status = "completed"],
            jobs, k + 1, dry, Append(done, jobs[k]))
    ELSE [self |-> after_can_use(self, job.provider), processed |-> done]

process_jobs(self, jobs, k, dry, done) ==
    IF k > Len(jobs) THEN [self |-> self, processed |-> done]
    ELSE process_job(self, jobs, k, dry, done, self.queue[jobs[k]])

\* process_queue: self after the call and the jobs processed (positions).
process_queue(self, dry) == process_jobs(self, queued_jobs(self.queue), 1, dry, <<>>)

(***************************************************************************)
(* scripts/rebuild-with-correct-breaks.py: the audio the exported times    *)
(* are calibrated to.                                                      *)
(***************************************************************************)

\* section_breaks of rebuild_chapter: one break per section of
\* audio-structure.json that has a transition, at the section's end.
RECURSIVE section_breaks(_)
section_breaks(sections) ==
    IF sections = <<>> THEN <<>>
    ELSE (IF "transition" \in DOMAIN Head(sections)
          THEN <<[raw_position |-> Head(sections).end,
                  duration |-> Head(sections).transition]>>
          ELSE <<>>)
         \o section_breaks(Tail(sections))

\* total_break_dur: sum(b["duration"] for b in section_breaks)
RECURSIVE total_break_dur(_)
total_break_dur(breaks) ==
    IF breaks = <<>> THEN 0
    ELSE Head(breaks).duration + total_break_dur(Tail(breaks))

\* The break time inserted at or before the raw position r: in the rebuilt
\* audio the narration is cut at each raw_position and the break put there.
RECURSIVE break_time_until(_, _)
break_time_until(breaks, r) ==
    IF breaks = <<>> THEN 0
    ELSE (IF Head(breaks).raw_position <= r THEN Head(breaks).duration ELSE 0)
         + break_time_until(Tail(breaks), r)

\* The manifest entry of the audio rebuild_chapter lays out (intro, narration
\* cut at the breaks, outro), as the exporter reads it: the intro's length,
\* the length of the whole (est_dur) and one entry of sections per break,
\* with the time in the final audio at which the break begins.  (The
\* exporter takes one share of the break time per entry and i breaks
\* before entry i.)
manifest_entry(intro_dur, raw_dur, breaks, outro_dur) ==
    [intro_offset |-> intro_dur,
     duration |-> intro_dur + raw_dur + total_break_dur(breaks) + outro_dur,
     sections |->
        [i \in 1..Len(breaks) |->
            [timestamp |-> intro_dur + breaks[i].raw_position
                           + total_break_dur(SubSeq(breaks, 1, i - 1))]]]

(***************************************************************************)
(* Inputs of the exporter: audio structures, transcripts as transcribed    *)
(* (output/timing/saltmere/*-transcript.json) and their file names.        *)
(***************************************************************************)

\* How many transcript files the timing directory holds (a bound of the model).
MaxFiles == 2

\* The length of the raw narration of a chapter, and of its bumpers.
Lengths == [raw |-> 300000, intro |-> 24000, outro |-> 10000]
RawDur == Lengths.raw
IntroDur == Lengths.intro
OutroDur == Lengths.outro

\* The sections of a chapter in audio-structure.json: one break of 30 s at
\* 180 s; two breaks, of 10 s at 60 s and of 30 s at 180 s; none; one break
\* of 30 s before the first word; three breaks, of 10, 10 and 20 s.
OneBreak == <<[end |-> 180000, transition |-> 30000], [end |-> RawDur]>>
TwoBreaks ==
    <<[end |-> 60000, transition |-> 10000],
      [end |-> 180000, transition |-> 30000], [end |-> RawDur]>>
NoBreak == <<[end |-> RawDur]>>
BreakAtStart == <<[end |-> 0, transition |-> 30000], [end |-> RawDur]>>
ThreeBreaks ==
    <<[end |-> 60000, transition |-> 10000], [end |-> 120000, transition |-> 10000],
      [end |-> 180000, transition |-> 20000], [end |-> RawDur]>>

AudioStructures ==
    {[intro |-> IntroDur, sections |-> OneBreak, outro |-> 0],
     [intro |-> IntroDur, sections |-> TwoBreaks, outro |-> 0],
     [intro |-> IntroDur, sections |-> OneBreak, outro |-> OutroDur],
     [intro |-> IntroDur, sections |-> NoBreak, outro |-> 0],
     [intro |-> IntroDur, sections |-> BreakAtStart, outro |-> 0],
     [intro |-> IntroDur, sections |-> ThreeBreaks, outro |-> 0]}

\* A word entry of a transcript segment.
Timed(w, start, end) == [word |-> w, start |-> start, end |-> end]

The0 == Timed(<<" ", "T", "h", "e">>, 0, 400)
Quiet100 == Timed(<<" ", "q", "u", "i", "e", "t">>, 100000, 100500)
Blank150 == Timed(<<" ">>, 150000, 150000)
Left185 == Timed(<<" ", "l", "e", "f", "t">>, 185000, 185300)
Line179 == Timed(<<" ", "l", "i", "n", "e">>, 179000, 179500)
Faded181 == Timed(<<" ", "f", "a", "d", "e", "d">>, 181000, 181500)
Harbor200 == Timed(<<" ", "h", "a", "r", "b", "o", "r", ".">>, 200000, 200600)
\* An entry without start and end.
SarahUntimed == [word |-> <<" ", "S", "a", "r", "a", "h">>]

\* Transcripts: in order; with a blank word; with a start below the one
\* before it; with an entry that lacks its times; without duration; empty;
\* with two words two seconds apart.
Transcribed ==
    {[duration |-> RawDur,
      segments |-> <<[words |-> <<The0, Quiet100>>], [words |-> <<Harbor200>>]>>],
     [duration |-> RawDur, segments |-> <<[words |-> <<The0, Blank150, Left185>>]>>],
     [duration |-> RawDur, segments |-> <<[words |-> <<Harbor200, Quiet100>>]>>],
     [duration |-> RawDur, segments |-> <<[words |-> <<The0, SarahUntimed>>]>>],
     [duration |-> 0, segments |-> <<[words |-> <<The0, Quiet100, Harbor200>>]>>],
     [duration |-> RawDur, segments |-> <<>>],
     [duration |-> RawDur, segments |-> <<[words |-> <<Line179, Faded181>>]>>]}

\* The names of the transcript files, in sorted order; chapter is what
\* extract_chapter_number finds in the name.
FileNames ==
    <<[base |-> "chapter-01-station", chapter |-> 1, fixed |-> TRUE],
      [base |-> "chapter-01-station", chapter |-> 1, fixed |-> FALSE],
      [base |-> "chapter-02-harbor", chapter |-> 2, fixed |-> FALSE],
      [base |-> "notes", chapter |-> None, fixed |-> FALSE]>>

\* The directories the exporter may find: up to MaxFiles files, sorted.
TimingDirs ==
    {[k \in 1..Cardinality(S) |-> [name |-> FileNames[Kth(S, k)], data |-> d[k]]] :
        <<S, d>> \in UNION {{S} \X [1..Cardinality(S) -> Transcribed] :
                           S \in {T \in SUBSET (1..4) : Cardinality(T) \in 1..MaxFiles}}}

(***************************************************************************)
(* Inputs: transcripts (the "words" of chapter-NN-words.json) and chapter  *)
(* pages (site/read/chapter-NN-*.html).                                    *)
(***************************************************************************)

\* How many times the command is run on the chapter (a bound of the model).
MaxRuns == 2

\* How many words one pass of the aligner is given (a bound of the model).
MaxTokens == 3

TheQuietHarbor == <<<<"T", "h", "e">>, <<"q", "u", "i", "e", "t">>, <<"h", "a", "r", "b", "o", "r">>>>
TreeLineFaded == <<<<"t", "r", "e", "e">>, <<"l", "i", "n", "e">>, <<"f", "a", "d", "e", "d">>>>
SarahLeft == <<<<"S", "a", "r", "a", "h">>, <<"l", "e", "f", "t">>>>

\* A transcript long enough for the lookahead and resync windows.
LongTranscript ==
    <<<<"t", "r", "e", "e">>, <<"l", "i", "n", "e">>, <<"f", "a", "d", "e", "d">>, <<"T", "h", "e">>, <<"q", "u", "i", "e", "t">>, <<"h", "a", "r", "b", "o", "r", ".">>, <<"S", "a", "r", "a", "h">>, <<"l", "e", "f", "t">>, <<"g", "r", "a", "y">>, <<"w", "a", "t", "e", "r">>>>

\* never + the + less is a three-word compound; water is the last word.
ShortTranscript == <<<<"n", "e", "v", "e", "r">>, <<"t", "h", "e">>, <<"l", "e", "s", "s">>, <<"w", "a", "t", "e", "r">>>>

\* The transcripts of the chapter pages; <<>> is a chapter without a words file
\* (load_transcript_words returns None, or the file lists no word).
Transcripts == {TheQuietHarbor, TreeLineFaded, SarahLeft, <<>>}

\* A transcript with a word that is punctuation only.
DashTranscript == <<<<"t", "r", "e", "e">>, <<"l", "i", "n", "e">>, <<"emdash">>, <<"f", "a", "d", "e", "d">>, <<"T", "h", "e">>>>

AlignTranscripts == {LongTranscript, ShortTranscript, DashTranscript}

\* The manuscript words the aligner is given.
Vocabulary ==
    {<<"T", "h", "e">>, <<"q", "u", "i", "e", "t">>, <<"h", "a", "r", "b", "o", "u", "r">>, <<"t", "r", "e", "e", "l", "i", "n", "e">>, <<"n", "e", "v", "e", "r", "t", "h", "e", "l", "e", "s", "s">>, <<"S", "a", "r", "a", "h">>, <<"l", "e", "f", "t", ",">>,
     <<"g", "r", "e", "y">>, <<"z", "z", "z">>, <<"w", "a", "t", "e", "r", "emdash", "b", "u", "t">>, <<"emdash">>, <<"w", "a", "t", "e", "r">>, <<"f", "a", "d", "e", "d", ".">>}

ContentDiv == StartTag("div", <<Attr("class", ContentClass, "dq")>>)
P == StartTag("p", <<>>)

DocA ==
    <<Decl(<<"D", "O", "C", "T", "Y", "P", "E", " ", "h", "t", "m", "l">>), ContentDiv, P, Text(<<"T", "h", "e", " ", "q", "u", "i", "e", "t", " ", "h", "a", "r", "b", "o", "r", ".">>), EndTag("p"),
      EndTag("div"), StartTag("footer", <<>>), Text(<<"a", " ", "&", "a", "m", "p", ";", " ", "b">>), EndTag("footer")>>

DocB == <<ContentDiv, P, Text(<<"t", "r", "e", "e", "l", "i", "n", "e", " ", "f", "a", "d", "e", "d", ".">>), EndTag("p"), EndTag("div")>>

DocC == <<ContentDiv, P, Text(<<"S", "a", "r", "a", "h", " ", "q", "u", "i", "c", "k", "l", "y", " ", "l", "e", "f", "t", ".">>), EndTag("p"), EndTag("div"), Text(<<"nl">>)>>

DocD ==
    <<StartTag("div", <<Attr("class", <<"c", "h", "a", "p", "t", "e", "r", " ", "c", "o", "n", "t", "e", "n", "t">>, "dq")>>), StartTag("P", <<>>),
      Text(<<"T", "h", "e", " ">>), StartEndTag("br", <<>>), Text(<<"q", "u", "i", "e", "t", " ">>), StartTag("code", <<>>),
      Text(<<"x">>), EndTag("code"), Text(<<" ", "h", "a", "r", "b", "o", "r", ".">>), EndTag("P"), EndTag("div")>>

DocE ==
    <<StartTag("div", <<Attr("class", ContentClass, "sq")>>),
      StartTag("p", <<Attr("title", <<>>, "dq")>>), Text(<<"T", "h", "e", " ", "q", "u", "i", "e", "t">>), EndTag("p"),
      StartTag("hr", <<>>), P, Text(<<"h", "a", "r", "b", "o", "r", ".">>), EndTag("p"), EndTag("div"),
      StartTag("footer", <<>>), Text(<<"l", "e", "f", "t">>), EndTag("footer")>>

DocF ==
    <<PI(<<"x", "m", "l">>), Comment(<<"c">>), ContentDiv, Text(<<"T", "o", "m", " ", "&", "a", "m", "p", ";", " ", "S", "a", "r", "a", "h">>),
      StartTag("span", <<>>), Text(<<"q", "u", "i", "c", "k", "l", "y">>), EndTag("span"), Text(<<" ", "l", "e", "f", "t">>), EndTag("div")>>

DocG ==
    <<StartTag("footer", <<>>), Text(<<"&", "a", "m", "p", ";", "l", "t", ";">>), EndTag("footer"), ContentDiv, P,
      Text(<<"T", "h", "e", " ", "q", "u", "i", "e", "t">>), EndTag("p"), Text(<<"nl">>), P, Text(<<"h", "a", "r", "b", "o", "r", ".">>), EndTag("p"),
      EndTag("div")>>

DocH ==
    <<ContentDiv, StartTag("script", <<>>), Text(<<"a", " ", "&", "a", "m", "p", ";", " ", "b">>), EndTag("script"),
      StartTag("pre", <<>>), StartTag("code", <<>>), Text(<<"t", "r", "e", "e">>), EndTag("code"),
      Text(<<" ", "l", "i", "n", "e">>), EndTag("pre"), Text(<<" ", "f", "a", "d", "e", "d">>), EndTag("div")>>

DocI ==
    <<ContentDiv, StartTag("div", <<>>), Text(<<"t", "r", "e", "e", " ", "l", "i", "n", "e">>), EndTag("div"), Text(<<" ", "f", "a", "d", "e", "d">>),
      EndTag("div"), P, Text(<<"q", "u", "i", "e", "t">>), EndTag("p")>>

DocJ == <<P, Text(<<"T", "h", "e", " ", "q", "u", "i", "e", "t", " ", "h", "a", "r", "b", "o", "r", ".">>), EndTag("p")>>

\* A span inside a span, and a style element inside a code element.
DocL ==
    <<ContentDiv, StartTag("span", <<>>), StartTag("span", <<>>), Text(<<"t", "r", "e", "e">>), EndTag("span"),
      Text(<<" ", "l", "i", "n", "e">>), EndTag("span"), Text(<<" ", "f", "a", "d", "e", "d", " ">>),
      StartTag("code", <<>>), StartTag("style", <<>>), Text(<<"T", "h", "e">>), EndTag("style"), Text(<<"x">>), EndTag("code"),
      Text(<<" ", "T", "h", "e">>), EndTag("div")>>

\* The chapter pages, none of them annotated yet.
Documents == {DocA, DocB, DocC, DocD, DocE, DocF, DocG, DocH, DocI, DocJ, DocL}

(***************************************************************************)
(* Inputs of the validator: chapters, each with its page (annotated by     *)
(* process_chapter against a transcript) and the transcript it is          *)
(* validated against.                                                      *)
(***************************************************************************)

\* A page whose first word stands between em dashes, and its transcript.
DocK ==
    <<ContentDiv, P,
      Text(<<"emdash", "a", "emdash", " ", "h", "a", "r", "b", "o", "r", ".">>),
      EndTag("p"), EndTag("div")>>

AHarbor == <<<<"a">>, <<"h", "a", "r", "b", "o", "r", ".">>>>

\* The transcript of a recording that ends after "The quiet".
TheQuiet == SubSeq(TheQuietHarbor, 1, 2)

SyncDocuments == {DocA, DocB, DocC, DocK}

SyncTranscripts == {TheQuietHarbor, TheQuiet, TreeLineFaded, SarahLeft, AHarbor, <<>>}

\* What process_chapter writes for the page, given the transcript words
\* (without any, the words are numbered by SimpleWordWrapper).
annotated(page, transcript_words) ==
    get_output(feed(NewWrapper(transcript_words, transcript_words # <<>>), page))

\* The chapters the validator may find: the page of a manuscript annotated
\* against one transcript, beside a transcript; or no page at all.
ChapterFiles ==
    {[manuscript |-> d, aligned_to |-> t, page |-> annotated(d, t), words |-> u] :
        d \in SyncDocuments, t \in SyncTranscripts, u \in SyncTranscripts}
    \cup {[manuscript |-> <<>>, aligned_to |-> <<>>, page |-> <<>>, words |-> u] :
            u \in SyncTranscripts}

\* The chapters a second chapter of the run is taken from.
OtherChapterFiles ==
    {[manuscript |-> DocA, aligned_to |-> TheQuietHarbor,
      page |-> annotated(DocA, TheQuietHarbor), words |-> TheQuietHarbor],
     [manuscript |-> DocC, aligned_to |-> SarahLeft,
      page |-> annotated(DocC, SarahLeft), words |-> SarahLeft],
     [manuscript |-> DocA, aligned_to |-> TheQuietHarbor,
      page |-> annotated(DocA, TheQuietHarbor), words |-> <<>>]}

\* A chapter of which the site has neither page nor transcript.
NoChapterFiles == [manuscript |-> <<>>, aligned_to |-> <<>>, page |-> <<>>, words |-> <<>>]

\* list(range(1, 8)), the chapters main checks without --chapter.
AllChapters == [n \in 1..7 |-> n]

\* The sites: files of the first two chapters, none of the others.
Sites ==
    {[n \in 1..Len(AllChapters) |->
        IF n = 1 THEN c[1] ELSE IF n = 2 THEN c[2] ELSE NoChapterFiles] :
            c \in ChapterFiles \X OtherChapterFiles}

\* args.chapter: not given, or one of the chapters that have files.
ChapterArgs == {None, 1, 2}

(***************************************************************************)
(* Inputs of the type guards: world states as json.load may return them.   *)
(***************************************************************************)

\* A character dict with the given types of the keys the guard reads
\* ("absent": the dict has no such key).
Character(name, personality, secrets, knowledge) ==
    [t |-> "dict", name |-> name, personality |-> personality, secrets |-> secrets,
     knowledge |-> knowledge]

\* The valid character {"name": ...}.
Sheriff == Character("str", "absent", "absent", "absent")

\* Elements of "characters": valid ones, one without name, one with a
\* name that is no str, one for each list that is none, and a str.
CharacterValues ==
    {Sheriff,
     Character("str", "list", "list", "list"),
     Character("absent", "absent", "absent", "absent"),
     Character("int", "list", "absent", "absent"),
     Character("str", "str", "absent", "absent"),
     Character("str", "absent", "dict", "absent"),
     Character("str", "list", "list", "str"),
     [t |-> "str", name |-> "absent", personality |-> "absent", secrets |-> "absent",
      knowledge |-> "absent"]}

\* An event dict, likewise.
Event(description, participants, witnesses) ==
    [t |-> "dict", description |-> description, participants |-> participants,
     witnesses |-> witnesses]

\* The valid event {"description": ...}.
FireAtBakery == Event("str", "absent", "absent")

EventValues ==
    {FireAtBakery,
     Event("str", "list", "list"),
     Event("absent", "absent", "absent"),
     Event("str", "str", "absent"),
     Event("str", "absent", "int"),
     [t |-> "list", description |-> "absent", participants |-> "absent",
      witnesses |-> "absent"]}

\* The longest list of characters or events in a world state.
MaxItems == 2

\* The values of "characters" or "events": no such key, a list of at most
\* MaxItems of the elements, or a dict or a str in the place of the list.
ListValues(elements) ==
    {[t |-> "list", items |-> <<>>]}
    \cup {[t |-> "list", items |-> e] :
            e \in UNION {[1..n -> elements] : n \in 1..MaxItems}}
    \cup {[t |-> u, items |-> <<>>] : u \in {"absent", "dict", "str"}}

\* The world states: any characters beside events of one element at most,
\* any events beside characters of one element at most, and a list in the
\* place of the dict.
WorldStates ==
    {[t |-> "dict", characters |-> c, events |-> e] :
        c \in ListValues(CharacterValues),
        e \in {v \in ListValues(EventValues) : Len(v.items) <= 1}}
    \cup {[t |-> "dict", characters |-> c, events |-> e] :
            c \in ListValues({Sheriff}),
            e \in ListValues(EventValues)}
    \cup {[t |-> "list", characters |-> [t |-> "absent", items |-> <<>>],
           events |-> [t |-> "absent", items |-> <<>>]]}


(***************************************************************************)
(* Inputs of the budget manager: the commands of one day.                  *)
(***************************************************************************)

\* The commands run, at most.
MaxCommands == 4

\* request <provider> <chars>: amounts that fit the daily limit of the
\* Starter plan together (600 + 1400) or never (2001) and a negative one
\* (int(sys.argv[3]) takes it), a provider without limits and one that is
\* not in the budgets.
Requests ==
    {[provider |-> "elevenlabs_starter", chars |-> n] : n \in {600, 1400, 2001, -500}}
    \cup {[provider |-> "macos_native", chars |-> 2001],
          [provider |-> "piper", chars |-> 600]}

\* The documents that may be queued, with Path(doc_path).stat().st_size.
DocSizes == ("chapter-01.md" :> 900) @@ ("chapter-02.md" :> 1400)

\* queue <doc.md> [--provider <provider>] [--priority <priority>]; None
\* for an option that is not given.
QueueArgs ==
    {[doc_path |-> d, provider |-> "elevenlabs_starter", priority |-> p] :
        d \in DOMAIN DocSizes, p \in {"high", "low"}}
    \cup {[doc_path |-> "chapter-01.md", provider |-> "", priority |-> ""]}

(***************************************************************************)
(* State                                                                   *)
(***************************************************************************)

VARIABLES
    file,           \* the chapter page on disk (chapter_path)
    words_json,     \* the "words" of the chapter's word timing file
    pc,             \* where the command is: "main", or "feed" (in wrapper.feed)
    runs,           \* how many times process_chapter was called
    dry_run,        \* process_chapter's arguments
    force,
    content,        \* process_chapter's local: the page as read, then unwrapped
    stats,          \* the dict process_chapter returns
    wrapper,        \* the TranscriptAlignedWrapper / SimpleWordWrapper object
    rawdata,        \* HTMLParser.rawdata: the part of content not yet parsed
    result,         \* _wrap_words_aligned's local list: the markers appended so far
    word,           \* ... the word of the current iteration
    match_idx,      \* ... what _find_matching_transcript_idx returned
    num_consumed,
    returned,       \* ... and which of its return statements did
    text,           \* ... and the text after the current match (text[pos:])
    s1,             \* the arguments of a call of normalize_word / fuzzy_match
    s2,
    out,            \* what the calls returned, in order
    audio_structure,    \* the chapter's audio: intro, sections, outro
    manifest,           \* audio-manifest.json, by chapter number
    transcript_files,   \* main of export-word-timing.py: the sorted transcript files
    file_idx,           \* ... the file the loop is at (1-based)
    processed,
    total_words,
    outputs,            \* the chapter-NN-words.json files written, by chapter number
    printed,            \* the lines printed
    export_pc,          \* "loop", "done", or "raised" (ended by an exception)
    site,               \* validate-word-sync.py: the files of the chapters
    chapters,           \* main: the chapter numbers it checks
    chapter_idx,        \* ... the position of the loop in chapters (1-based)
    reports,            \* ... the results of find_mismatches, by chapter
    total_mismatches,
    total_dead,
    exit_code,          \* what main returned, None before
    world_data,         \* types.py: the world state the guards are called on
    guarded,            \* ... what is_world_state_dict returned, once called
    validated,          \* ... what validate_world_state did, once called
    config,             \* budget.py: audio-budget.json as last saved
    commands,           \* ... how many commands were run
    last                \* ... the last command and what came of it

chapterVars == <<file, words_json, pc, runs, dry_run, force, content, stats, rawdata>>
loopVars == <<result, word, match_idx, num_consumed, returned, text>>
callVars == <<s1, s2, out>>
exportVars == <<audio_structure, manifest, transcript_files, file_idx, processed,
                total_words, outputs, printed, export_pc>>
validateVars == <<site, chapters, chapter_idx, reports, total_mismatches, total_dead, exit_code>>
typesVars == <<world_data, guarded, validated>>
budgetVars == <<config, commands, last>>
vars == <<file, words_json, pc, runs, dry_run, force, content, stats, wrapper, rawdata,
          result, word, match_idx, num_consumed, returned, text, s1, s2, out,
          audio_structure, manifest, transcript_files, file_idx, processed,
          total_words, outputs, printed, export_pc,
          site, chapters, chapter_idx, reports, total_mismatches, total_dead, exit_code,
          world_data, guarded, validated, config, commands, last>>

NoLoop ==
    /\ result = <<>>
    /\ word = <<>>
    /\ match_idx = None
    /\ num_consumed = 0
    /\ returned = ""
    /\ text = <<>>

NoCall ==
    /\ s1 = <<>>
    /\ s2 = <<>>
    /\ out = <<>>

NoExport ==
    /\ audio_structure = <<>>
    /\ manifest = <<>>
    /\ transcript_files = <<>>
    /\ file_idx = 0
    /\ processed = 0
    /\ total_words = 0
    /\ outputs = <<>>
    /\ printed = <<>>
    /\ export_pc = ""

NoTypes ==
    /\ world_data = <<>>
    /\ guarded = <<>>
    /\ validated = <<>>

NoBudget ==
    /\ config = <<>>
    /\ commands = 0
    /\ last = <<>>

NoValidate ==
    /\ site = <<>>
    /\ chapters = <<>>
    /\ chapter_idx = 0
    /\ reports = <<>>
    /\ total_mismatches = 0
    /\ total_dead = 0
    /\ exit_code = None

NoChapter ==
    /\ file = <<>>
    /\ words_json = <<>>
    /\ pc = "main"
    /\ runs = 0
    /\ dry_run = FALSE
    /\ force = FALSE
    /\ content = <<>>
    /\ stats = new_stats
    /\ rawdata = <<>>

(***************************************************************************)
(* The command: main() calls process_chapter for the chapter page; the     *)
(* command may be run again on the page it left.                           *)
(***************************************************************************)

Init ==
    /\ NoValidate
    /\ NoTypes
    /\ NoBudget
    /\ NoExport
    /\ file \in Documents
    /\ words_json \in Transcripts
    /\ pc = "main"
    /\ runs = 0
    /\ dry_run = FALSE
    /\ force = FALSE
    /\ content = <<>>
    /\ stats = new_stats
    /\ wrapper = NewWrapper(<<>>, FALSE)
    /\ rawdata = <<>>
    /\ NoLoop
    /\ NoCall

\* process_chapter, when the page is already wrapped and force is not set:
\* it returns the initial stats.
ProcessChapterSkipped(d, f) ==
    /\ pc = "main"
    /\ runs < MaxRuns
    /\ already_wrapped(file) /\ ~f
    /\ dry_run' = d
    /\ force' = f
    /\ runs' = runs + 1
    /\ content' = file
    /\ stats' = new_stats
    /\ UNCHANGED <<file, words_json, pc, wrapper, rawdata, loopVars, callVars, exportVars, validateVars, typesVars, budgetVars>>

\* process_chapter up to wrapper.feed(content): the page is read, unwrapped
\* when it is wrapped (force is set then), the transcript is loaded and the
\* wrapper is made: the aligned one when there are transcript words.
ProcessChapterBegin(d, f) ==
    /\ pc = "main"
    /\ runs < MaxRuns
    /\ ~(already_wrapped(file) /\ ~f)
    /\ dry_run' = d
    /\ force' = f
    /\ runs' = runs + 1
    /\ content' = IF already_wrapped(file) THEN unwrap_chapter_html(file) ELSE file
    /\ stats' = [new_stats EXCEPT !.transcript_words = Len(words_json)]
    /\ wrapper' = NewWrapper(words_json, words_json # <<>>)
    /\ rawdata' = content'
    /\ pc' = "feed"
    /\ UNCHANGED <<file, words_json, loopVars, callVars, exportVars, validateVars, typesVars, budgetVars>>

\* The parser is at an item of the given kind.
At(kind) == pc = "feed" /\ rawdata # <<>> /\ Head(rawdata).k = kind

\* The parser has taken the item: the rest of the page is left to parse.
Parsed ==
    /\ rawdata' = Tail(rawdata)
    /\ UNCHANGED <<file, words_json, pc, runs, dry_run, force, content, stats, loopVars, callVars, exportVars, validateVars, typesVars, budgetVars>>

HandleData ==
    /\ At("text")
    /\ wrapper' = parse_text(wrapper, Head(rawdata))
    /\ Parsed

HandleStartTag ==
    /\ At("start") /\ ~Head(rawdata).selfclose
    /\ wrapper' = parse_starttag(wrapper, Head(rawdata))
    /\ Parsed

HandleStartEndTag ==
    /\ At("start") /\ Head(rawdata).selfclose
    /\ wrapper' = parse_startendtag(wrapper, Head(rawdata))
    /\ Parsed

HandleEndTag ==
    /\ At("end")
    /\ wrapper' = parse_endtag(wrapper, Head(rawdata))
    /\ Parsed

HandleComment ==
    /\ At("comment")
    /\ wrapper' = parse_comment(wrapper, Head(rawdata))
    /\ Parsed

HandleDecl ==
    /\ At("decl")
    /\ wrapper' = parse_html_declaration(wrapper, Head(rawdata))
    /\ Parsed

HandlePI ==
    /\ At("pi")
    /\ wrapper' = parse_pi(wrapper, Head(rawdata))
    /\ Parsed

\* Finish that writes the page whether or not dry_run is set.
FinishWrites(flushed) ==
    /\ wrapper' = [flushed EXCEPT !.output = JoinItems(@)]
    /\ stats' = [stats EXCEPT
                    !.wrapped = IF flushed.aligned THEN flushed.wrapped_count
                                ELSE flushed.word_index,
                    !.mismatches = IF flushed.aligned THEN first_ten(flushed.mismatches)
                                   ELSE @,
                    !.status = IF dry_run THEN "would_wrap" ELSE "wrapped"]
    /\ file' = JoinItems(flushed.output)

\* What process_chapter does with the flushed wrapper: the stats are filled
\* in and the page is written unless dry_run.
Finish(flushed) ==
    /\ wrapper' = [flushed EXCEPT !.output = JoinItems(@)]
    /\ stats' = [stats EXCEPT
                    !.wrapped = IF flushed.aligned THEN flushed.wrapped_count
                                ELSE flushed.word_index,
                    !.mismatches = IF flushed.aligned THEN first_ten(flushed.mismatches)
                                   ELSE @,
                    !.status = IF dry_run THEN "would_wrap" ELSE "wrapped"]
    /\ file' = IF dry_run THEN file ELSE JoinItems(flushed.output)

\* process_chapter from wrapper.get_output() on.
ProcessChapterEnd ==
    /\ pc = "feed"
    /\ rawdata = <<>>
    /\ Finish(flush_buffer(wrapper))
    /\ pc' = "main"
    /\ UNCHANGED <<words_json, runs, dry_run, force, content, rawdata, loopVars, callVars, exportVars, validateVars, typesVars, budgetVars>>

Next ==
    \/ \E d \in BOOLEAN, f \in BOOLEAN : ProcessChapterSkipped(d, f)
    \/ \E d \in BOOLEAN, f \in BOOLEAN : ProcessChapterBegin(d, f)
    \/ HandleData
    \/ HandleStartTag
    \/ HandleStartEndTag
    \/ HandleEndTag
    \/ HandleComment
    \/ HandleDecl
    \/ HandlePI
    \/ ProcessChapterEnd

Spec == Init /\ [][Next]_vars

(***************************************************************************)
(* One pass of the aligner over a stream of words: the loop of             *)
(* _wrap_words_aligned, one iteration at a time.                           *)
(***************************************************************************)

InitAlign ==
    /\ NoValidate
    /\ NoTypes
    /\ NoBudget
    /\ NoExport
    /\ NoChapter
    /\ wrapper \in {NewWrapper(t, TRUE) : t \in AlignTranscripts}
    /\ NoLoop
    /\ NoCall

\* The state after an iteration of the loop that gave r for the word w.
Wrapped(r, w) ==
    /\ wrapper' = r.self
    /\ result' = result \o r.piece
    /\ word' = w
    /\ match_idx' = r.match_idx
    /\ num_consumed' = r.num_consumed
    /\ returned' = r.strategy

\* One iteration of the loop, for the word w.
WrapWord(w) ==
    /\ Len(result) < 3 * MaxTokens
    /\ Wrapped(wrap_word(wrapper, w), w)
    /\ UNCHANGED <<chapterVars, text, callVars, exportVars, validateVars, typesVars, budgetVars>>

NextAlign == \E w \in Vocabulary : WrapWord(w)

SpecAlign == InitAlign /\ [][NextAlign]_vars


(***************************************************************************)
(* _wrap_words_aligned over a text that holds a run of five fabricated     *)
(* words: the first words of the transcript, the run, and the transcript   *)
(* words that follow.                                                      *)
(***************************************************************************)

\* How many transcript words stand before the run, at most, and how many
\* after it (bounds of the model).
MaxPre == 2

MaxCont == 3

\* The words of the run: two that no strategy matches in the transcripts
\* without a dash (the second normalizes to nothing), and one that is a word
\* of two transcripts.
RunWords == {<<"z", "z", "z">>, <<"emdash">>, <<"w", "a", "t", "e", "r">>}

ResyncTranscripts == AlignTranscripts

\* ' '.join(words)
RECURSIVE Unwords(_)
Unwords(words) ==
    IF words = <<>> THEN <<>>
    ELSE IF Len(words) = 1 THEN words[1]
    ELSE words[1] \o <<" ">> \o Unwords(Tail(words))

\* The manuscripts with a run after the first p words of the transcript.
RunManuscripts(words) ==
    {Unwords(SubSeq(words, 1, p) \o run
             \o SubSeq(words, p + 1, Min(p + MaxCont, Len(words)))) :
        p \in 0..MaxPre, run \in [1..5 -> RunWords]}

InitResync ==
    /\ NoValidate
    /\ NoTypes
    /\ NoBudget
    /\ NoExport
    /\ NoChapter
    /\ wrapper \in {NewWrapper(t, TRUE) : t \in ResyncTranscripts}
    /\ result = <<>>
    /\ word = <<>>
    /\ match_idx = None
    /\ num_consumed = 0
    /\ returned = ""
    /\ text \in RunManuscripts(wrapper.transcript_words)
    /\ NoCall

\* One iteration of the loop over re.finditer: the white space and the
\* word are taken from the text, the word is wrapped.
WrapNextWord ==
    /\ SpaceRun(text) < Len(text)
    /\ Wrapped(wrap_word(wrapper, next_word(text)), next_word(text))
    /\ text' = Drop(text, SpaceRun(text) + Len(next_word(text)) + 1)
    /\ UNCHANGED <<chapterVars, callVars, exportVars, validateVars, typesVars, budgetVars>>

NextResync == WrapNextWord

SpecResync == InitResync /\ [][NextResync]_vars

(***************************************************************************)
(* normalize_word and fuzzy_match as functions of their arguments          *)
(***************************************************************************)

\* How many pieces a word given to normalize_word is made of (a bound of
\* the model).
MaxPieces == 2

\* What the words are made of: letters, punctuation that is stripped,
\* dashes, and character references, whole and in part.
Pieces ==
    {<<"a">>, <<"T">>, <<".">>, <<"-">>, <<"emdash">>, <<"ellipsis">>,
     <<"&">>, <<"&", "a", "m", "p", ";">>, <<"a", "m", "p", ";">>, <<"l", "t", ";">>}

RECURSIVE WordsOfPieces(_)
WordsOfPieces(n) ==
    IF n = 0 THEN {<<>>}
    ELSE WordsOfPieces(n - 1) \cup {w \o q : w \in WordsOfPieces(n - 1), q \in Pieces}

InitNormalize ==
    /\ NoValidate
    /\ NoTypes
    /\ NoBudget
    /\ NoExport
    /\ NoChapter
    /\ wrapper = NewWrapper(<<>>, FALSE)
    /\ NoLoop
    /\ s1 \in WordsOfPieces(MaxPieces)
    /\ s2 = <<>>
    /\ out = <<>>

\* normalize_word is called on the word, and then on what it returned.
NormalizeWord ==
    /\ Len(out) < 2
    /\ out' = Append(out, normalize_word(IF out = <<>> THEN s1 ELSE out[Len(out)]))
    /\ UNCHANGED <<chapterVars, wrapper, loopVars, s1, s2, exportVars, validateVars, typesVars, budgetVars>>

NextNormalize == NormalizeWord

SpecNormalize == InitNormalize /\ [][NextNormalize]_vars

\* The strings fuzzy_match is given: all of three letters, and some of ten.
Letters == {"a", "b", "c"}

ShortStrings == {<<x, y, z>> : x \in Letters, y \in Letters, z \in Letters}

LongStrings ==
    {<<"a", "a", "a", "a", "a", "a", "a", "a", "a", "a">>,
     <<"a", "b", "a", "b", "a", "b", "a", "b", "a", "b">>,
     <<"a", "b", "c", "a", "b", "c", "a", "b", "c", "a">>}

\* s with the letter at position i replaced by c.
Replaced(s, i, c) == [s EXCEPT ![i] = c]

LongPairs ==
    {<<s, Replaced(s, i, c)>> : s \in LongStrings, i \in 1..10, c \in Letters}

InitFuzzy ==
    /\ NoValidate
    /\ NoTypes
    /\ NoBudget
    /\ NoExport
    /\ NoChapter
    /\ wrapper = NewWrapper(<<>>, FALSE)
    /\ NoLoop
    /\ \E pair \in (ShortStrings \X ShortStrings) \cup LongPairs :
          /\ s1 = pair[1]
          /\ s2 = pair[2]
    /\ out = <<>>

\* fuzzy_match(s1, s2) is called.
FuzzyMatch ==
    /\ out = <<>>
    /\ out' = <<fuzzy_match(s1, s2)>>
    /\ UNCHANGED <<chapterVars, wrapper, loopVars, s1, s2, exportVars, validateVars, typesVars, budgetVars>>

\* fuzzy_match(s2, s1) is called: the same pair, the other way round.
FuzzyMatchSwapped ==
    /\ Len(out) = 1
    /\ out' = Append(out, fuzzy_match(s2, s1))
    /\ UNCHANGED <<chapterVars, wrapper, loopVars, s1, s2, exportVars, validateVars, typesVars, budgetVars>>

NextFuzzy == FuzzyMatch \/ FuzzyMatchSwapped

SpecFuzzy == InitFuzzy /\ [][NextFuzzy]_vars

(***************************************************************************)
(* SpecExport: main() of export-word-timing.py, one transcript file of the *)
(* timing directory per step.                                              *)
(***************************************************************************)

InitExport ==
    /\ NoValidate
    /\ NoTypes
    /\ NoBudget
    /\ NoChapter
    /\ wrapper = NewWrapper(<<>>, FALSE)
    /\ NoLoop
    /\ NoCall
    /\ audio_structure \in AudioStructures
    /\ manifest = (1 :> manifest_entry(audio_structure.intro, RawDur,
                                       section_breaks(audio_structure.sections),
                                       audio_structure.outro))
    /\ transcript_files \in TimingDirs
    /\ file_idx = 1
    /\ processed = 0
    /\ total_words = 0
    /\ outputs = <<>>
    /\ printed = <<>>
    /\ export_pc = "loop"

\* fixed_files: the base names that have a fixed transcript.
fixed_files(files) ==
    {files[k].name.base : k \in {j \in 1..Len(files) : files[j].name.fixed}}

\* The loop is at a file.
AtFile ==
    /\ export_pc = "loop"
    /\ file_idx <= Len(transcript_files)

\* The file is passed over for its fixed version.
Superseded(f) ==
    /\ f.name.base \in fixed_files(transcript_files)
    /\ ~f.name.fixed

ExportSuperseded ==
    /\ AtFile
    /\ Superseded(transcript_files[file_idx])
    /\ file_idx' = file_idx + 1
    /\ UNCHANGED <<audio_structure, manifest, transcript_files, processed,
                   total_words, outputs, printed, export_pc>>
    /\ UNCHANGED <<chapterVars, wrapper, loopVars, callVars, validateVars, typesVars, budgetVars>>

\* The name has no chapter number: reported as skipped.
ExportUnnumbered ==
    /\ AtFile
    /\ ~Superseded(transcript_files[file_idx])
    /\ transcript_files[file_idx].name.chapter = None
    /\ printed' = Append(printed, <<"Skipped", transcript_files[file_idx].name.base>>)
    /\ file_idx' = file_idx + 1
    /\ UNCHANGED <<audio_structure, manifest, transcript_files, processed,
                   total_words, outputs, export_pc>>
    /\ UNCHANGED <<chapterVars, wrapper, loopVars, callVars, validateVars, typesVars, budgetVars>>

\* process_transcript raises KeyError; main does not catch it.
ExportRaises ==
    /\ AtFile
    /\ ~Superseded(transcript_files[file_idx])
    /\ transcript_files[file_idx].name.chapter # None
    /\ transcript_raises(transcript_files[file_idx].data)
    /\ printed' = Append(printed, <<"Processing", transcript_files[file_idx].name.base>>)
    /\ export_pc' = "raised"
    /\ UNCHANGED <<audio_structure, manifest, transcript_files, file_idx,
                   processed, total_words, outputs>>
    /\ UNCHANGED <<chapterVars, wrapper, loopVars, callVars, validateVars, typesVars, budgetVars>>

\* main writes the word timing file word_data of the chapter.
Exported(f, word_data) ==
    /\ outputs' = (f.name.chapter :> word_data) @@ outputs
    /\ printed' = printed \o <<<<"Processing", f.name.base>>,
                               <<"Exported", f.name.chapter, word_data.word_count>>>>
    /\ processed' = processed + 1
    /\ total_words' = total_words + word_data.word_count
    /\ file_idx' = file_idx + 1

ExportChapter ==
    /\ AtFile
    /\ ~Superseded(transcript_files[file_idx])
    /\ transcript_files[file_idx].name.chapter # None
    /\ ~transcript_raises(transcript_files[file_idx].data)
    /\ Exported(transcript_files[file_idx],
                process_transcript(transcript_files[file_idx].name.chapter,
                                   transcript_files[file_idx].data,
                                   get_chapter_calibration(
                                       manifest, transcript_files[file_idx].name.chapter)))
    /\ UNCHANGED <<audio_structure, manifest, transcript_files, export_pc>>
    /\ UNCHANGED <<chapterVars, wrapper, loopVars, callVars, validateVars, typesVars, budgetVars>>

\* After the last file: the summary line.
ExportDone ==
    /\ export_pc = "loop"
    /\ file_idx > Len(transcript_files)
    /\ printed' = Append(printed, <<"Done", processed, total_words>>)
    /\ export_pc' = "done"
    /\ UNCHANGED <<audio_structure, manifest, transcript_files, file_idx,
                   processed, total_words, outputs>>
    /\ UNCHANGED <<chapterVars, wrapper, loopVars, callVars, validateVars, typesVars, budgetVars>>

NextExport ==
    \/ ExportSuperseded
    \/ ExportUnnumbered
    \/ ExportRaises
    \/ ExportChapter
    \/ ExportDone

SpecExport == InitExport /\ [][NextExport]_vars

(***************************************************************************)
(* SpecValidate: main() of validate-word-sync.py, one chapter per step.    *)
(***************************************************************************)

InitValidate ==
    /\ NoTypes
    /\ NoBudget
    /\ NoChapter
    /\ wrapper = NewWrapper(<<>>, FALSE)
    /\ NoLoop
    /\ NoCall
    /\ audio_structure = <<>>
    /\ manifest = <<>>
    /\ transcript_files = <<>>
    /\ file_idx = 0
    /\ processed = 0
    /\ total_words = 0
    /\ outputs = <<>>
    /\ export_pc = ""
    /\ site \in Sites
    /\ \E chapter \in ChapterArgs :
           chapters = IF chapter # None THEN <<chapter>> ELSE AllChapters
    /\ chapter_idx = 1
    /\ reports = <<>>
    /\ total_mismatches = 0
    /\ total_dead = 0
    /\ printed = <<>>
    /\ exit_code = None

\* The body of the loop of main for the chapter with the given results.
Reported(results) ==
    /\ reports' = Append(reports, results)
    /\ printed' = Append(printed,
                          <<"Chapter", chapters[chapter_idx], report_status(results)>>)
    /\ total_mismatches' = total_mismatches + Len(results.mismatches)
    /\ total_dead' = total_dead + Len(results.dead_words)
    /\ chapter_idx' = chapter_idx + 1

ValidateChapter ==
    /\ exit_code = None
    /\ chapter_idx <= Len(chapters)
    /\ Reported(find_mismatches(site[chapters[chapter_idx]].words,
                                load_html_words(site[chapters[chapter_idx]].page)))
    /\ UNCHANGED <<site, chapters, exit_code>>
    /\ UNCHANGED <<audio_structure, manifest, transcript_files, file_idx, processed,
                   total_words, outputs, export_pc>>
    /\ UNCHANGED <<chapterVars, wrapper, loopVars, callVars, typesVars, budgetVars>>

\* main after the loop: the totals are printed and the status is returned.
ValidateExit ==
    /\ exit_code = None
    /\ chapter_idx > Len(chapters)
    /\ printed' = printed
            \o (IF total_mismatches > 0
                THEN <<<<"Total mismatches", total_mismatches>>>> ELSE <<>>)
            \o (IF total_dead > 0 THEN <<<<"Total dead words", total_dead>>>> ELSE <<>>)
            \o (IF total_mismatches = 0 /\ total_dead = 0
                THEN <<<<"All words validated successfully">>>> ELSE <<>>)
    /\ exit_code' = exit_status(total_mismatches, total_dead)
    /\ UNCHANGED <<site, chapters, chapter_idx, reports, total_mismatches, total_dead>>
    /\ UNCHANGED <<audio_structure, manifest, transcript_files, file_idx, processed,
                   total_words, outputs, export_pc>>
    /\ UNCHANGED <<chapterVars, wrapper, loopVars, callVars, typesVars, budgetVars>>

NextValidate == ValidateChapter \/ ValidateExit

SpecValidate == InitValidate /\ [][NextValidate]_vars

(***************************************************************************)
(* SpecTypes: the guard and the validator of the world state, each called  *)
(* on a world state.                                                       *)
(***************************************************************************)

InitTypes ==
    /\ NoChapter
    /\ wrapper = NewWrapper(<<>>, FALSE)
    /\ NoLoop
    /\ NoCall
    /\ NoExport
    /\ NoValidate
    /\ NoBudget
    /\ world_data \in WorldStates
    /\ guarded = <<>>
    /\ validated = <<>>

IsWorldStateDict ==
    /\ world_data # <<>>
    /\ guarded = <<>>
    /\ guarded' = <<is_world_state_dict(world_data)>>
    /\ UNCHANGED <<world_data, validated, budgetVars>>
    /\ UNCHANGED <<chapterVars, wrapper, loopVars, callVars, exportVars, validateVars>>

ValidateWorldState ==
    /\ world_data # <<>>
    /\ validated = <<>>
    /\ validated' = <<validate_world_state(world_data)>>
    /\ UNCHANGED <<world_data, guarded, budgetVars>>
    /\ UNCHANGED <<chapterVars, wrapper, loopVars, callVars, exportVars, validateVars>>

NextTypes == IsWorldStateDict \/ ValidateWorldState

SpecTypes == InitTypes /\ [][NextTypes]_vars

(***************************************************************************)
(* SpecBudget: commands of budget.py run one after the other on one day,   *)
(* each loading the config the one before saved.                           *)
(***************************************************************************)

\* The config load_or_create_config creates.
default_config == [active_provider |-> "macos_native", usage |-> <<>>, queue |-> <<>>]

InitBudget ==
    /\ NoChapter
    /\ wrapper = NewWrapper(<<>>, FALSE)
    /\ NoLoop
    /\ NoCall
    /\ NoExport
    /\ NoValidate
    /\ NoTypes
    /\ config = default_config
    /\ commands = 0
    /\ last = [command |-> "", provider |-> "", chars |-> 0, approved |-> FALSE,
               status |-> 0, jobs |-> <<>>]

\* main, command "request": the usage is recorded and saved if can_use
\* approves; if not, nothing is saved and the status is 1.
Request ==
    /\ config # <<>>
    /\ commands < MaxCommands
    /\ \E r \in Requests :
          /\ config' = IF can_use(config, r.provider, r.chars).ok
                       THEN record_usage(after_can_use(config, r.provider),
                                         r.provider, r.chars, "")
                       ELSE config
          /\ last' = [command |-> "request", provider |-> r.provider, chars |-> r.chars,
                      approved |-> can_use(config, r.provider, r.chars).ok,
                      status |-> IF can_use(config, r.provider, r.chars).ok THEN 0 ELSE 1,
                      jobs |-> <<>>]
    /\ commands' = commands + 1
    /\ UNCHANGED <<typesVars>>
    /\ UNCHANGED <<chapterVars, wrapper, loopVars, callVars, exportVars, validateVars>>

\* main, command "queue".
Queue ==
    /\ config # <<>>
    /\ commands < MaxCommands
    /\ \E a \in QueueArgs :
          /\ config' = add_to_queue(config, a.doc_path,
                            IF a.provider # "" THEN a.provider ELSE config.active_provider,
                            IF a.priority # "" THEN a.priority ELSE "medium",
                            DocSizes[a.doc_path])
          /\ last' = [command |-> "queue",
                      provider |-> IF a.provider # "" THEN a.provider
                                   ELSE config.active_provider,
                      chars |-> DocSizes[a.doc_path], approved |-> FALSE, status |-> 0,
                      jobs |-> <<>>]
    /\ commands' = commands + 1
    /\ UNCHANGED <<typesVars>>
    /\ UNCHANGED <<chapterVars, wrapper, loopVars, callVars, exportVars, validateVars>>

\* main, command "process-queue": the config is saved unless --dry-run.
ProcessQueue ==
    /\ config # <<>>
    /\ commands < MaxCommands
    /\ \E dry \in BOOLEAN :
          /\ config' = IF dry THEN config ELSE process_queue(config, dry).self
          /\ last' = [command |-> IF dry THEN "process-queue --dry-run" ELSE "process-queue",
                      provider |-> "", chars |-> 0, approved |-> FALSE, status |-> 0,
                      jobs |-> process_queue(config, dry).processed]
    /\ commands' = commands + 1
    /\ UNCHANGED <<typesVars>>
    /\ UNCHANGED <<chapterVars, wrapper, loopVars, callVars, exportVars, validateVars>>

NextBudget == Request \/ Queue \/ ProcessQueue

SpecBudget == InitBudget /\ [][NextBudget]_vars

(***************************************************************************)
(* Properties of one pass of the aligner (SpecAlign)                       *)
(***************************************************************************)

\* The data-i of a marker start, None for a marker without one.
MarkerIndex(item) == IF Len(item.attrs) = 2 THEN int(item.attrs[2].value) ELSE None

\* The markers of a list of items, in order: for each the word it wraps, as
\* the reader sees it, and its data-i.
MarkersOf(items) ==
    LET at == {j \in 1..Len(items) : is_marker_start(items[j])}
        nth(m) == CHOOSE j \in at : Cardinality({i \in at : i < j}) = m - 1
    IN  [m \in 1..Cardinality(at) |->
            [word |-> IF nth(m) < Len(items) /\ items[nth(m) + 1].k = "text"
                      THEN unescape(items[nth(m) + 1].s) ELSE <<>>,
             i |-> MarkerIndex(items[nth(m)])]]

\* The data-i of the markers written so far are in non-decreasing order.
IndicesNonDecreasing(markers) ==
    \A a, b \in 1..Len(markers) :
        (a < b /\ markers[a].i # None /\ markers[b].i # None) => markers[a].i <= markers[b].i

\* C1: within one annotation pass the transcript cursor never moves
\* backward, and the indices written into data-i are non-decreasing in
\* manuscript order.
C1_CursorAndIndicesMonotone ==
    /\ [](IndicesNonDecreasing(MarkersOf(result)))
    /\ [][wrapper'.transcript_idx >= wrapper.transcript_idx]_vars

\* C1 witness: three words were given indices, the second and third after
\* the cursor had been moved ahead by a lookahead or a resync.
C1_Witness_IndexedAfterJump ==
    /\ Len(MarkersOf(result)) = 3
    /\ \A m \in 1..3 : MarkersOf(result)[m].i # None
    /\ MarkersOf(result)[1].i + 1 < MarkersOf(result)[2].i
    /\ MarkersOf(result)[2].i < MarkersOf(result)[3].i
    /\ returned \in {"lookahead", "resync"}

\* C7: when the word at the cursor t is not a match and the manuscript
\* token normalizes to the concatenation of the normalized transcript words
\* t and t + 1, the token gets the index t, two words are consumed and the
\* cursor is t + 2; the token after it is compared against transcript[t + 2].
C7_CompoundOfTwo ==
    [][LET t == wrapper.transcript_idx
           words == wrapper.transcript_words
           html_norm == normalize_word(word')
       IN  /\ ( /\ t + 1 < Len(words)
                /\ html_norm # <<>>
                /\ ~matches(html_norm, normalize_word(words[t + 1]))
                /\ html_norm = normalize_word(words[t + 1]) \o normalize_word(words[t + 2]) )
              => ( /\ match_idx' = t
                   /\ num_consumed' = 2
                   /\ wrapper'.transcript_idx = t + 2
                   /\ MarkersOf(result')[Len(MarkersOf(result'))] = [word |-> word', i |-> t] )
           /\ ( /\ returned = "compound"
                /\ num_consumed = 2
                /\ t < Len(words)
                /\ html_norm # <<>>
                /\ html_norm = normalize_word(words[t + 1]) )
              => ( /\ t = match_idx + 2
                   /\ match_idx' = match_idx + 2 )
      ]_vars

\* C7 witness: treeline took tree and line (index 0, two words consumed),
\* and the next token, faded., was given index 2.
C7_Witness_TreelineThenFaded ==
    /\ Len(MarkersOf(result)) = 2
    /\ MarkersOf(result)[1] = [word |-> <<"t", "r", "e", "e", "l", "i", "n", "e">>, i |-> 0]
    /\ MarkersOf(result)[2] = [word |-> <<"f", "a", "d", "e", "d", ".">>, i |-> 2]
    /\ wrapper.transcript_idx = 3


(***************************************************************************)
(* Properties of process_chapter (Spec)                                    *)
(***************************************************************************)

\* How many of the diagnostics say that a word had no match.
NoMatchCount(mismatches) ==
    Cardinality({j \in 1..Len(mismatches) : mismatches[j].kind = "No match for HTML word"})

\* Every marker of the items wraps one word: a marker start, character data
\* without white space, and the end tag.
MarkersWrapOneWord(items) ==
    \A j \in 1..Len(items) :
        is_marker_start(items[j]) =>
            /\ j + 2 <= Len(items)
            /\ items[j + 1].k = "text"
            /\ items[j + 1].s # <<>>
            /\ \A c \in 1..Len(items[j + 1].s) : ~IsSpace(items[j + 1].s[c])
            /\ items[j + 2] = EndTag("span")

\* The words of the content text that a step of the aligned pass flushes: a
\* handler other than handle_data flushes the buffer, and so does get_output.
FlushedContentWords ==
    IF /\ rawdata # <<>> => Head(rawdata).k \notin {"text", "pi"}
       /\ wrapper.in_content_div
       /\ wrapper.skip_depth = 0
    THEN split(wrapper.text_buffer)
    ELSE <<>>

\* What C2 says of one step, given the markers before and after it and the
\* content words it flushed.
EachWordWrappedOnce(before, after, words) ==
    /\ Len(after) = Len(before) + Len(words)
    /\ SubSeq(after, 1, Len(before)) = before
    /\ \A k \in 1..Len(words) : after[Len(before) + k].word = words[k]
    /\ Cardinality({k \in 1..Len(words) : after[Len(before) + k].i # None})
         = wrapper'.wrapped_count - wrapper.wrapped_count
    /\ Cardinality({k \in 1..Len(words) : after[Len(before) + k].i = None})
         = NoMatchCount(wrapper'.mismatches) - NoMatchCount(wrapper.mismatches)

HasMarkers(page) == \E j \in 1..Len(page) : is_marker_start(page[j])

\* C3: process_chapter on a page that holds word markers, without force,
\* leaves the page as it is and returns status "skipped" with 0 words wrapped.
C3_SkippedLeavesFile ==
    [][(pc = "main" /\ runs' = runs + 1 /\ HasMarkers(file) /\ ~force') =>
          /\ file' = file
          /\ pc' = "main"
          /\ stats'.status = "skipped"
          /\ stats'.wrapped = 0
      ]_vars

\* C3 witness: the second run, without force, found the page the first run
\* had annotated, and returned "skipped".
C3_Witness_SecondRunSkipped ==
    /\ pc = "main"
    /\ runs = 2
    /\ ~force
    /\ HasMarkers(file)
    /\ stats.status = "skipped"
    /\ stats.wrapped = 0

\* C4: annotating, with force, the page that one aligned annotation of an
\* unannotated page produced writes that same page again:
\* annotate(unwrap(annotate(M, T)), T) = annotate(M, T).
C4_ForcedReannotationSame ==
    [][(pc = "feed" /\ pc' = "main" /\ wrapper.aligned /\ runs = 2 /\ force /\ ~dry_run
          /\ HasMarkers(file)) =>
          file' = file
      ]_vars

\* The items without the word markers: each marker gives way to the
\* character data it wraps.
RECURSIVE WithoutMarkers(_)
WithoutMarkers(items) ==
    IF items = <<>> THEN <<>>
    ELSE IF /\ Len(items) >= 3
            /\ is_marker_start(items[1])
            /\ items[2].k = "text"
            /\ items[3] = EndTag("span")
         THEN <<items[2]>> \o WithoutMarkers(Drop(items, 4))
    ELSE <<Head(items)>> \o WithoutMarkers(Tail(items))

\* C5: the output of an aligned pass is the input with word markers inserted and
\* nothing else changed: tags, attributes, comments, declarations, entity
\* references and text outside the content are the bytes of the input.
C5_OnlyMarkersInserted ==
    (pc = "main" /\ runs > 0 /\ wrapper.aligned /\ stats.status # "skipped") =>
        JoinItems(WithoutMarkers(wrapper.output)) = content

\* C6: with dry_run the page on disk is never written, whatever force and
\* the page hold, and the status returned is "would_wrap" or "skipped";
\* without dry_run a run that is not skipped writes the annotated markup to
\* the page and returns "wrapped".
C6_DryRunNeverWrites ==
    [][LET dry == IF pc = "main" THEN dry_run' ELSE dry_run
       IN  /\ dry => /\ file' = file
                     /\ pc' = "main" => stats'.status \in {"would_wrap", "skipped"}
           /\ (~dry /\ pc = "feed" /\ pc' = "main") =>
                 /\ file' = get_output(wrapper)
                 /\ stats'.status = "wrapped"
      ]_vars

\* C6 witness: a dry run with force on a page that holds markers has
\* finished: it returned "would_wrap", and the page still holds them.
C6_Witness_ForcedDryRun ==
    /\ pc = "main"
    /\ runs = 2
    /\ dry_run
    /\ force
    /\ stats.status = "would_wrap"
    /\ stats.wrapped > 0
    /\ HasMarkers(file)


(***************************************************************************)
(* Recovery after a run of unmatched words (SpecResync)                    *)
(***************************************************************************)

\* No strategy of the aligner can match the word to the transcript: it
\* neither equals nor fuzzily matches a transcript word or the join of two
\* or three in a row, and no transcript word is a prefix it accepts.
MatchesNoTranscriptWord(w, words) ==
    \A j \in 1..Len(words) :
        /\ ~matches(normalize_word(w), normalize_word(words[j]))
        /\ ~prefix_match(normalize_word(w), normalize_word(words[j]))
        /\ \A n \in join_count_range :
              j + n - 1 <= Len(words) =>
                  ~matches(normalize_word(w), joined_words(words, j - 1, n))

\* The markers m are those of p words aligned one to one with the first p
\* transcript words, then a run of five words that match nothing, then c
\* words that equal the transcript words from the cursor (p) on.
RunThenContinuation(m, words, p, c) ==
    /\ Len(m) = p + 5 + c
    /\ p + c <= Len(words)
    /\ \A k \in 1..p : m[k] = [word |-> words[k], i |-> k - 1]
    /\ \A k \in (p + 1)..(p + 5) : MatchesNoTranscriptWord(m[k].word, words)
    /\ \A k \in 1..c : m[p + 5 + k].word = words[p + k]

\* The five words of the run are left without index, the words after it
\* all have one, strictly increasing and not below the last index before
\* the run.
Recovered(m, p, c) ==
    /\ \A k \in (p + 1)..(p + 5) : m[k].i = None
    /\ \A k \in (p + 6)..(p + 5 + c) : m[k].i # None
    /\ \A a, b \in (p + 6)..(p + 5 + c) : a < b => m[a].i < m[b].i
    /\ \A a \in 1..p, b \in (p + 6)..(p + 5 + c) : m[a].i <= m[b].i

\* What C8 says of the markers m written so far.
RecoversAfterRun(m, words) ==
    \A p \in 0..(Len(m) - 6) :
        RunThenContinuation(m, words, p, Len(m) - 5 - p) => Recovered(m, p, Len(m) - 5 - p)

\* C8: after a run of 5 consecutive tokens that match no transcript word,
\* tokens that equal the transcript words from the cursor on are all
\* aligned, with strictly increasing indices, none below the last index
\* assigned before the run; the 5 tokens are left unindexed.
C8_RecoversAfterUnmatchedRun == RecoversAfterRun(MarkersOf(result), wrapper.transcript_words)

\* The words after the run, m[from..], all normalize to something.
ContinuationNormalizes(m, from) ==
    \A k \in from..Len(m) : normalize_word(m[k].word) # <<>>

\* What C8 as amended says of the markers m written so far.
RecoversAfterRunOfWords(m, words) ==
    \A p \in 0..(Len(m) - 6) :
        (RunThenContinuation(m, words, p, Len(m) - 5 - p) /\ ContinuationNormalizes(m, p + 6))
            => Recovered(m, p, Len(m) - 5 - p)

\* C8 as amended: after a run of 5 consecutive tokens that match no
\* transcript word, tokens that equal the transcript words from the cursor
\* on, none of them punctuation only (each normalizes to a non-empty
\* string), are all aligned, with strictly increasing indices, none below
\* the last index assigned before the run; the 5 tokens are left unindexed.
C8_RecoversWhenContinuationNormalizes ==
    RecoversAfterRunOfWords(MarkersOf(result), wrapper.transcript_words)

\* Two aligned words, five times zzz, then three words of the transcript,
\* aligned to the indices 2, 3 and 4.
RunOfZzzThenThree(m, words) ==
    /\ RunThenContinuation(m, words, 2, 3)
    /\ \A k \in 3..7 : m[k].word = <<"z", "z", "z">>
    /\ m[8].i = 2
    /\ m[10].i = 4

\* C8 witness: the text is used up; two words were aligned, the five of the
\* run were left without index (the miss count passed the resync threshold
\* on the way) and the three words after it have the indices 2, 3 and 4.
C8_Witness_RunThenThreeAligned ==
    /\ text = <<>>
    /\ wrapper.consecutive_misses = 0
    /\ RunOfZzzThenThree(MarkersOf(result), wrapper.transcript_words)


(***************************************************************************)
(* Properties of normalize_word (SpecNormalize) and fuzzy_match (SpecFuzzy) *)
(***************************************************************************)

\* C9: the normalizer is idempotent: normalize_word(normalize_word(x)) is
\* normalize_word(x) for every string x, also one with character
\* references, dashes and punctuation.
C9_NormalizeIdempotent == Len(out) = 2 => out[2] = out[1]

\* The two strings have the same length and differ at exactly one position.
DifferAtOnePosition(a, b) ==
    /\ Len(a) = Len(b)
    /\ Cardinality({i \in 1..Len(a) : a[i] # b[i]}) = 1

\* C10: fuzzy_match returns false for two 3-character strings that differ
\* at exactly one position, and true for two 10-character strings that
\* differ at exactly one position.
C10_ThresholdBoundary ==
    (out # <<>> /\ DifferAtOnePosition(s1, s2)) =>
        /\ Len(s1) = 3 => out[1] = FALSE
        /\ Len(s1) = 10 => out[1] = TRUE

\* C11: fuzzy_match is symmetric: fuzzy_match(a, b) = fuzzy_match(b, a) for
\* all normalized strings a and b.
C11_FuzzySymmetric == Len(out) = 2 => (out[1] <=> out[2])

(***************************************************************************)
(* Properties of the timing exporter (SpecExport)                          *)
(***************************************************************************)

\* The transcript a written word timing file was made from: that of the
\* file with the chapter number that is not passed over.
TranscriptOf(chapter_num) ==
    transcript_files[CHOOSE k \in 1..Len(transcript_files) :
        /\ transcript_files[k].name.chapter = chapter_num
        /\ ~Superseded(transcript_files[k])].data

\* The word entries whose text is not blank.
RECURSIVE NonBlank(_)
NonBlank(ws) ==
    IF ws = <<>> THEN <<>>
    ELSE (IF strip_space(Head(ws).word) = <<>> THEN <<>> ELSE <<Head(ws)>>)
         \o NonBlank(Tail(ws))

\* One triple per transcript word, with the word's own start and end.
OwnTimes(word_data, ws) ==
    /\ Len(word_data.words) = Len(ws)
    /\ word_data.word_count = Len(word_data.words)
    /\ \A k \in 1..Len(ws) :
          k <= Len(word_data.words) =>
              /\ word_data.words[k][1] = ws[k].start
              /\ word_data.words[k][2] = ws[k].end

MovedBy(triple, w, intro, total, scale, bp) ==
    /\ triple[1] = round_div(scale * (w.start + intro) + bp * total, scale)
    /\ triple[2] = round_div(scale * (w.end + intro) + bp * total, scale)
    /\ triple[3] = strip_space(w.word)

\* One triple per word that is not blank, start and end moved by the same
\* offset: intro_offset and at most num_sections shares of the break time.
Calibrated(word_data, ws, calibration, total) ==
    /\ Len(word_data.words) = Len(ws)
    /\ word_data.word_count = Len(word_data.words)
    /\ \A k \in 1..Len(ws) :
          \E bp \in 0..num_sections(calibration) :
              MovedBy(word_data.words[k], ws[k], calibration.intro_offset, total,
                      offset_scale(calibration), bp)

NonMonotonic(ws) == \E k \in 2..Len(ws) : ws[k].start < ws[k - 1].start

\* C13: a chapter whose transcript has a word with a start lower than that
\* of the word before it is not exported.
C13_NonMonotonicNotExported ==
    \A c \in DOMAIN outputs : ~NonMonotonic(segment_words(TranscriptOf(c).segments))

\* The start of every triple is the word's raw start plus the intro and the
\* durations of the breaks at or before the raw start.
FollowsBreaks(word_data, ws, intro, breaks) ==
    \A k \in 1..Len(ws) :
        word_data.words[k][1] = ws[k].start + intro + break_time_until(breaks, ws[k].start)

\* C14: the final time of a raw timestamp r is r + intro_offset + the sum of
\* the durations of exactly the breaks with raw_position <= r, each break
\* with its own duration.
C14_CalibrationFormula ==
    \A c \in DOMAIN outputs \cap DOMAIN manifest :
        FollowsBreaks(outputs[c], NonBlank(segment_words(TranscriptOf(c).segments)),
                      audio_structure.intro, section_breaks(audio_structure.sections))

\* The exported starts are in the order of the raw starts.
KeepsOrder(word_data, ws) ==
    \A i \in 1..Len(ws) : \A j \in 1..Len(ws) :
        ws[i].start <= ws[j].start => word_data.words[i][1] <= word_data.words[j][1]

\* C15: the calibration is monotone: a word that starts no later than
\* another in the transcript starts no later than it in the exported file.
C15_CalibrationMonotone ==
    \A c \in DOMAIN outputs :
        KeepsOrder(outputs[c], NonBlank(segment_words(TranscriptOf(c).segments)))

\* C15 witness: chapter 1 was exported from the transcript with words at
\* 179 s and 181 s, between which a break lies: the second is moved by
\* more than the first.
C15_Witness_BreakBetweenWords ==
    /\ 1 \in DOMAIN outputs
    /\ outputs[1].word_count = 2
    /\ segment_words(TranscriptOf(1).segments) = <<Line179, Faded181>>
    /\ outputs[1].words[2][1] - outputs[1].words[1][1] > 2000

\* Every word that starts at 0 is exported with the start intro.
ZeroAtIntro(word_data, ws, intro) ==
    \A k \in 1..Len(ws) : ws[k].start = 0 => word_data.words[k][1] = intro

BreaksAfterStart(starts) == \A i \in 1..Len(starts) : starts[i] > 0

C19_FailuresIsolated ==
    export_pc \in {"done", "raised"} =>
        \A k \in 1..Len(transcript_files) :
            (/\ ~Superseded(transcript_files[k])
             /\ transcript_files[k].name.chapter # None
             /\ ~transcript_raises(transcript_files[k].data))
            => transcript_files[k].name.chapter \in DOMAIN outputs

(***************************************************************************)
(* Properties of the sync validator (SpecValidate)                         *)
(***************************************************************************)

\* The files of the chapter the k-th report is about.
Checked(k) == site[chapters[k]]

\* dead_words lists the markers without an index, and only those.
DeadAreTheUnindexed(results, markers) ==
    /\ Len(results.dead_words) = Cardinality({j \in 1..Len(markers) : markers[j].i = None})
    /\ \A j \in 1..Len(markers) :
          markers[j].i = None =>
             \E d \in 1..Len(results.dead_words) :
                 results.dead_words[d] = [html_index |-> j - 1, word |-> markers[j].word]

\* The marker is among the mismatches of the results.
InMismatches(results, marker) ==
    \E d \in 1..Len(results.mismatches) :
        /\ results.mismatches[d].data_i = marker.i
        /\ results.mismatches[d].html_word = marker.word

\* Every indexed marker has a transcript word at its index, and is among
\* the mismatches exactly if the two are less similar than the threshold.
IndexedAreCompared(results, markers, transcript) ==
    /\ \A j \in 1..Len(markers) :
          markers[j].i # None =>
             /\ markers[j].i < Len(transcript)
             /\ InMismatches(results, markers[j])
                <=> ratio_below_threshold(sync_normalize_word(markers[j].word),
                                          sync_normalize_word(transcript[markers[j].i + 1]))
    /\ Len(results.mismatches)
          = Cardinality({j \in 1..Len(markers) : InMismatches(results, markers[j])})

\* C17: for a chapter with a transcript and annotated markup, dead_words
\* holds exactly the markers without an index, every indexed marker is
\* compared with the transcript word at its index, and mismatches holds
\* exactly those whose similarity is below the threshold.
C17_EveryIndexedMarkerCompared ==
    \A k \in 1..Len(reports) :
        (Checked(k).words # <<>> /\ MarkersOf(Checked(k).page) # <<>>)
        => /\ DeadAreTheUnindexed(reports[k], MarkersOf(Checked(k).page))
           /\ IndexedAreCompared(reports[k], MarkersOf(Checked(k).page), Checked(k).words)

\* The sum of the lengths of the given list of each report.
RECURSIVE ReportedTotal(_, _)
ReportedTotal(rs, dead) ==
    IF rs = <<>> THEN 0
    ELSE (IF dead THEN Len(Head(rs).dead_words) ELSE Len(Head(rs).mismatches))
         + ReportedTotal(Tail(rs), dead)

\* C18, as stated, with a tolerance of no mismatch and no dead word: the
\* run exits with a non-zero status exactly if a mismatch or a dead word
\* was reported.
C18_ExitCountsDeadWords ==
    exit_code # None =>
        (exit_code # 0 <=> (ReportedTotal(reports, FALSE) > 0 \/ ReportedTotal(reports, TRUE) > 0))

\* C18, amended: the run exits with status 1 if a mismatch was reported in
\* some chapter and with status 0 otherwise, however many dead words were
\* reported.
C18_ExitCountsMismatches ==
    exit_code # None =>
        /\ exit_code \in {0, 1}
        /\ exit_code = 1 <=> ReportedTotal(reports, FALSE) > 0

\* C18 witness: a run over all chapters has ended with status 0 after
\* reporting dead words and no mismatch.
C18_Witness_DeadWordsExitZero ==
    /\ exit_code = 0
    /\ Len(reports) = Len(AllChapters)
    /\ ReportedTotal(reports, TRUE) > 0
    /\ ReportedTotal(reports, FALSE) = 0

\* The words of the manuscript: those of the text of its paragraph.
ManuscriptWords(manuscript) ==
    split(manuscript[(CHOOSE j \in 1..Len(manuscript) : manuscript[j] = P) + 1].s)

\* The words normalize, one to one and in order, to the transcript's.
NormalizeToTranscript(ws, transcript) ==
    /\ Len(ws) = Len(transcript)
    /\ \A j \in 1..Len(ws) : normalize_word(ws[j]) = normalize_word(transcript[j])

\* The markers carry the indices 0, 1, ..., n-1 in order.
IndexedInOrder(markers, n) ==
    /\ Len(markers) = n
    /\ \A j \in 1..Len(markers) : markers[j].i = j - 1

\* C20: when the words of the manuscript normalize one to one to the n
\* words of the transcript the page was annotated against, the markers of
\* the page carry the indices 0 to n-1 in order, and the validator, run on
\* the page and the same transcript, reports no dead word and no mismatch.
C20_AnnotatorAndValidatorAgree ==
    \A k \in 1..Len(reports) :
        (/\ Checked(k).page # <<>>
         /\ Checked(k).aligned_to = Checked(k).words
         /\ Checked(k).words # <<>>
         /\ NormalizeToTranscript(ManuscriptWords(Checked(k).manuscript), Checked(k).words))
        => /\ IndexedInOrder(MarkersOf(Checked(k).page), Len(Checked(k).words))
           /\ reports[k].errors = <<>>
           /\ reports[k].dead_words = <<>>
           /\ reports[k].mismatches = <<>>

(***************************************************************************)
(* Properties of the type guards (SpecTypes)                               *)
(***************************************************************************)

\* The value of a key is a list, if the dict has the key.
ListIfPresent(field) == field \in {"absent", "list"}

\* A dict with a string name whose personality, secrets and knowledge are
\* lists if present.
ValidCharacter(c) ==
    /\ c.t = "dict"
    /\ c.name = "str"
    /\ ListIfPresent(c.personality) /\ ListIfPresent(c.secrets) /\ ListIfPresent(c.knowledge)

\* A dict with a string description whose participants and witnesses are
\* lists if present.
ValidEvent(e) ==
    /\ e.t = "dict"
    /\ e.description = "str"
    /\ ListIfPresent(e.participants) /\ ListIfPresent(e.witnesses)

\* A dict whose characters and events, if present, are lists of valid
\* characters and of valid events.
ValidWorldState(w) ==
    /\ w.t = "dict"
    /\ w.characters.t # "absent" =>
          /\ w.characters.t = "list"
          /\ \A j \in 1..Len(w.characters.items) : ValidCharacter(w.characters.items[j])
    /\ w.events.t # "absent" =>
          /\ w.events.t = "list"
          /\ \A j \in 1..Len(w.events.items) : ValidEvent(w.events.items[j])

\* C21: is_world_state_dict(data) is true exactly when data is a dict whose
\* characters, if present, are a list of valid character dicts and whose
\* events, if present, are a list of valid event dicts; validate_world_state
\* returns the data unchanged when it is valid and raises ValueError
\* otherwise.
C21_WorldStateValidation ==
    /\ guarded # <<>> => (guarded[1] <=> ValidWorldState(world_data))
    /\ validated # <<>> =>
          IF ValidWorldState(world_data)
          THEN validated[1].raised = "" /\ validated[1].value = <<world_data>>
          ELSE validated[1].raised = "ValueError" /\ validated[1].value = <<>>

\* C21 witness: a world state with two characters, one of them with all
\* three lists, and an event passed the guard and was returned by
\* validate_world_state.
C21_Witness_ValidWorldReturned ==
    /\ guarded = <<TRUE>>
    /\ validated # <<>>
    /\ validated[1].raised = ""
    /\ Len(world_data.characters.items) = 2
    /\ world_data.characters.items[2].knowledge = "list"
    /\ Len(world_data.events.items) = 1

(***************************************************************************)
(* Properties of the budget manager (SpecBudget)                           *)
(***************************************************************************)

\* used <= limit
WithinLimit(used, limit) == limit = inf \/ used <= limit

\* What is recorded for a provider: monthly_used, daily_used and history.
RecordedFor(cfg, provider) ==
    IF provider \in DOMAIN cfg.usage
    THEN <<cfg.usage[provider].monthly_used, cfg.usage[provider].daily_used,
           cfg.usage[provider].history>>
    ELSE <<0, 0, <<>>>>

\* The sum of the chars of the entries of a history.
RECURSIVE CharsOf(_)
CharsOf(history) ==
    IF history = <<>> THEN 0 ELSE Head(history).chars + CharsOf(Tail(history))

\* Every provider is within its monthly and its daily limit.
QuotasKept ==
    \A p \in DOMAIN config.usage :
        /\ WithinLimit(config.usage[p].monthly_used, DEFAULT_BUDGETS[p].monthly_limit)
        /\ WithinLimit(config.usage[p].daily_used, DEFAULT_BUDGETS[p].daily_limit)

\* The usage of every provider is that of its history, and each entry of
\* the history was within both limits when it was recorded.
RecordedWhenApproved ==
    \A p \in DOMAIN config.usage :
        /\ config.usage[p].monthly_used = CharsOf(config.usage[p].history)
        /\ config.usage[p].daily_used = CharsOf(config.usage[p].history)
        /\ \A n \in 1..Len(config.usage[p].history) :
              /\ WithinLimit(CharsOf(SubSeq(config.usage[p].history, 1, n)),
                             DEFAULT_BUDGETS[p].monthly_limit)
              /\ WithinLimit(CharsOf(SubSeq(config.usage[p].history, 1, n)),
                             DEFAULT_BUDGETS[p].daily_limit)

\* A step of a denied request leaves what is recorded as it was, and a
\* step that changes what is recorded for a provider is an approved request
\* for that provider or a process-queue that processed a job.
RecordsChangeOnApproval ==
    /\ (last'.command = "request" /\ ~last'.approved) =>
          \A p \in DOMAIN DEFAULT_BUDGETS \cup {last'.provider} :
              RecordedFor(config', p) = RecordedFor(config, p)
    /\ \A p \in DOMAIN DEFAULT_BUDGETS :
          RecordedFor(config', p) # RecordedFor(config, p) =>
             \/ last'.command = "request" /\ last'.approved /\ last'.provider = p
             \/ last'.command = "process-queue" /\ last'.jobs # <<>>

\* C22: on one day, from an empty usage record, after any sequence of
\* request, queue and process-queue commands every provider is within its
\* monthly and daily limit; usage is recorded only for an approved amount,
\* and a denied request leaves monthly_used, daily_used and the history
\* unchanged.
C22_QuotaEnforced ==
    /\ [](config # <<>> => QuotasKept /\ RecordedWhenApproved)
    /\ [][RecordsChangeOnApproval]_vars

\* C22 witness: the Starter plan's daily limit is used up by two records
\* and the last command, a request for it, was denied.
C22_Witness_DeniedAtDailyLimit ==
    /\ config # <<>>
    /\ last.command = "request"
    /\ ~last.approved
    /\ last.provider = "elevenlabs_starter"
    /\ "elevenlabs_starter" \in DOMAIN config.usage
    /\ config.usage["elevenlabs_starter"].daily_used
          = DEFAULT_BUDGETS["elevenlabs_starter"].daily_limit
    /\ Len(config.usage["elevenlabs_starter"].history) = 2

(***************************************************************************)
(* Properties of the matching strategies (SpecAlign)                       *)
(***************************************************************************)

\* The token matches the transcript word with the 0-based index i.
MatchesAt(words, token, i) ==
    /\ i < Len(words)
    /\ matches(normalize_word(token), normalize_word(words[i + 1]))

\* The token matches the 2- or the 3-word compound at the cursor t.
MatchesCompoundAt(words, token, t) ==
    \/ /\ t + 2 <= Len(words)
       /\ matches(normalize_word(token),
                  normalize_word(words[t + 1]) \o normalize_word(words[t + 2]))
    \/ /\ t + 3 <= Len(words)
       /\ matches(normalize_word(token),
                  normalize_word(words[t + 1]) \o normalize_word(words[t + 2])
                      \o normalize_word(words[t + 3]))

\* The offsets in 1..5 at which the token matches the transcript.
LookaheadOffsets(words, token, t) == {o \in 1..5 : MatchesAt(words, token, t + o)}

\* The token matches neither transcript[t] nor a compound at t, but a word
\* at most five ahead.
LookaheadCase(words, token, t) ==
    /\ t < Len(words)
    /\ ~MatchesAt(words, token, t)
    /\ ~MatchesCompoundAt(words, token, t)
    /\ LookaheadOffsets(words, token, t) # {}

\* The step gave the token the index t + o, left the cursor at t + o + 1,
\* reset the miss streak and recorded the skipped range t..t+o-1, nothing else.
AlignedAhead(t, o) ==
    /\ match_idx' = t + o
    /\ MarkersOf(result')[Len(MarkersOf(result'))] = [word |-> word', i |-> t + o]
    /\ wrapper'.transcript_idx = t + o + 1
    /\ wrapper'.consecutive_misses = 0
    /\ wrapper'.mismatches = Append(wrapper.mismatches, SkippedDiag(t, t + o - 1))

\* C23: bounded lookahead: when the cursor is at t and the token matches
\* neither transcript[t] nor a 2- or 3-word compound at t, but matches
\* transcript[t+o] for some o in 1..5, the token gets the index t+o for the
\* smallest such o, the cursor ends at t+o+1, the miss streak is reset to 0
\* and one diagnostic naming the skipped range t..t+o-1 is recorded.
C23_LookaheadAssigns ==
    [][LookaheadCase(wrapper.transcript_words, word', wrapper.transcript_idx)
           => AlignedAhead(wrapper.transcript_idx,
                           SetMin(LookaheadOffsets(wrapper.transcript_words, word',
                                                   wrapper.transcript_idx)))]_vars

\* C23 as amended: the same, for a token whose normalized form is not empty.
C23_LookaheadAssignsNonEmptyToken ==
    [][( /\ normalize_word(word') # <<>>
         /\ LookaheadCase(wrapper.transcript_words, word', wrapper.transcript_idx) )
           => AlignedAhead(wrapper.transcript_idx,
                           SetMin(LookaheadOffsets(wrapper.transcript_words, word',
                                                   wrapper.transcript_idx)))]_vars

\* C23 witness: after The (index 3), Sarah was found three words ahead of the
\* cursor 4, at index 6; the words 4..5 were recorded as skipped.
C23_Witness_SarahThreeAhead ==
    /\ returned = "lookahead"
    /\ Len(MarkersOf(result)) = 2
    /\ MarkersOf(result)[2] = [word |-> <<"S", "a", "r", "a", "h">>, i |-> 6]
    /\ wrapper.transcript_idx = 7
    /\ wrapper.consecutive_misses = 0
    /\ wrapper.mismatches[Len(wrapper.mismatches)] = SkippedDiag(4, 5)

\* The token fails the direct, the compound and the lookahead tests at the
\* cursor t.
FailsDirectCompoundLookahead(words, token, t) ==
    /\ t < Len(words)
    /\ normalize_word(token) # <<>>
    /\ ~MatchesAt(words, token, t)
    /\ ~MatchesCompoundAt(words, token, t)
    /\ LookaheadOffsets(words, token, t) = {}

\* The normalized token starts with the normalized transcript[t], which has
\* three characters or more.
StartsWithWordAt(words, token, t) ==
    /\ StartsWith(normalize_word(token), normalize_word(words[t + 1]))
    /\ Len(normalize_word(words[t + 1])) >= 3

\* C24: prefix match: a token that fails direct, compound and lookahead
\* matching is accepted by the prefix rule, with index t and one transcript
\* word consumed, exactly when its normalized form starts with the normalized
\* form of transcript[t], the word at the cursor, and that form has length
\* 3 or more.
C24_PrefixOfWordAtCursor ==
    [][FailsDirectCompoundLookahead(wrapper.transcript_words, word', wrapper.transcript_idx)
           => ( ( /\ returned' = "prefix"
                  /\ match_idx' = wrapper.transcript_idx
                  /\ num_consumed' = 1 )
                <=> StartsWithWordAt(wrapper.transcript_words, word', wrapper.transcript_idx) )]_vars

\* The step left its token without index: the cursor is where it was and the
\* token is recorded as unmatched.
LeftUnmatched ==
    /\ MarkersOf(result')[Len(MarkersOf(result'))] = [word |-> word', i |-> None]
    /\ wrapper'.transcript_idx = wrapper.transcript_idx
    /\ wrapper'.mismatches = Append(wrapper.mismatches, NoMatchDiag(word'))

\* The token of the step was compared with the transcript: the cursor is
\* inside the transcript and the token does not normalize to the empty string.
Compared ==
    /\ wrapper.transcript_idx < Len(wrapper.transcript_words)
    /\ normalize_word(word') # <<>>

\* C25: no match: whenever a token ends up without an index, the cursor is
\* unchanged by that token, the miss streak is incremented by exactly one and
\* the token is recorded as unmatched; whenever a token is matched by any
\* strategy, the miss streak is reset to 0.
C25_MissCountsOne ==
    [][IF match_idx' = None
       THEN LeftUnmatched /\ wrapper'.consecutive_misses = wrapper.consecutive_misses + 1
       ELSE wrapper'.consecutive_misses = 0]_vars

\* C25 as amended: a token without index leaves the cursor unchanged and is
\* recorded as unmatched; the miss streak is incremented by exactly one when
\* the token was compared with the transcript, and is unchanged when the
\* transcript is used up or the token normalizes to the empty string; a
\* matched token resets the miss streak to 0.
C25_ComparedMissCountsOne ==
    [][IF match_idx' = None
       THEN /\ LeftUnmatched
            /\ wrapper'.consecutive_misses =
                   wrapper.consecutive_misses + (IF Compared THEN 1 ELSE 0)
       ELSE wrapper'.consecutive_misses = 0]_vars

\* C25 witness: The was aligned at index 3, then zzz missed twice: the cursor
\* stayed at 4, the miss streak is 2 and both misses are recorded.
C25_Witness_TwoMissesAfterThe ==
    /\ Len(MarkersOf(result)) = 3
    /\ MarkersOf(result)[1].i = 3
    /\ MarkersOf(result)[2] = [word |-> <<"z", "z", "z">>, i |-> None]
    /\ MarkersOf(result)[3] = [word |-> <<"z", "z", "z">>, i |-> None]
    /\ wrapper.transcript_idx = 4
    /\ wrapper.consecutive_misses = 2
    /\ NoMatchCount(wrapper.mismatches) = 2

\* The offsets in 6..19 at which the token matches the transcript.
ResyncOffsets(words, token, t) == {k \in 6..19 : MatchesAt(words, token, t + k)}

\* How many markers at the end of m carry no index: the run of consecutive
\* unmatched tokens.
UnmatchedRun(m) ==
    Len(m) - SetMax({j \in 1..Len(m) : m[j].i # None} \cup {0})

\* The step jumped from the cursor t to the word at t + k and recorded it.
Jumped(t, k) ==
    /\ match_idx' = t + k
    /\ MarkersOf(result')[Len(MarkersOf(result'))] = [word |-> word', i |-> t + k]
    /\ wrapper'.transcript_idx = t + k + 1
    /\ wrapper'.consecutive_misses = 0
    /\ wrapper'.mismatches = Append(wrapper.mismatches, ResyncDiag(t, t + k))

\* C26: resync: a token is given an index t+k with k >= 6 (t the cursor
\* before the token) only when the run of consecutive unmatched tokens,
\* counting the current one, has reached 3; then k is the smallest offset in
\* 6..19 whose transcript word matches the token, the cursor ends at t+k+1,
\* the miss streak is reset to 0 and a diagnostic naming the jump is
\* recorded.  Before the streak reaches 3 no token is aligned beyond t+5.
C26_ResyncAfterThreeMisses ==
    [][(match_idx' # None /\ match_idx' >= wrapper.transcript_idx + 6)
           => /\ UnmatchedRun(MarkersOf(result)) + 1 >= 3
              /\ wrapper.consecutive_misses + 1 >= 3
              /\ ResyncOffsets(wrapper.transcript_words, word', wrapper.transcript_idx) # {}
              /\ Jumped(wrapper.transcript_idx,
                        SetMin(ResyncOffsets(wrapper.transcript_words, word',
                                             wrapper.transcript_idx) \cup {19}))]_vars

\* C26 witness: zzz missed twice at the cursor 0, then water, nine words
\* ahead, was given the index 9 by a resync.
C26_Witness_WaterAfterTwoMisses ==
    /\ returned = "resync"
    /\ Len(MarkersOf(result)) = 3
    /\ MarkersOf(result)[1].i = None
    /\ MarkersOf(result)[2].i = None
    /\ MarkersOf(result)[3] = [word |-> <<"w", "a", "t", "e", "r">>, i |-> 9]
    /\ wrapper.transcript_idx = 10
    /\ wrapper.consecutive_misses = 0
    /\ wrapper.mismatches[Len(wrapper.mismatches)] = ResyncDiag(0, 9)

(***************************************************************************)
(* Properties of the regions of a page (Spec)                              *)
(***************************************************************************)

\* The elements whose text is not content: scripts, styles, code,
\* preformatted blocks and spans (the word markers are spans).
SkipElements == {"script", "style", "code", "pre", "span"}

\* The items of the page that the parser has taken.
ParsedItems == SubSeq(content, 1, Len(content) - Len(rawdata))

\* How many of the named elements are open after the items: the start tags
\* less the end tags.
OpenElements(items, names) ==
    Cardinality({j \in 1..Len(items) :
                    /\ items[j].k = "start"
                    /\ ~items[j].selfclose
                    /\ NameLower(items[j].tag) \in names})
      - Cardinality({j \in 1..Len(items) :
                        items[j].k = "end" /\ NameLower(items[j].tag) \in names})

\* The step is a handler of the aligned pass that flushes buffered text.
FlushesText ==
    /\ pc = "feed"
    /\ wrapper.aligned
    /\ wrapper.text_buffer # <<>>
    /\ rawdata # <<>>
    /\ Head(rawdata).k \notin {"text", "pi"}

\* The step wrote the buffered text as it is, without a marker, and left
\* the cursor and the miss streak alone.
EmittedPlain ==
    /\ MarkersOf(wrapper'.output) = MarkersOf(wrapper.output)
    /\ Len(wrapper'.output) > Len(wrapper.output)
    /\ wrapper'.output[Len(wrapper.output) + 1] = Text(wrapper.text_buffer)
    /\ wrapper'.transcript_idx = wrapper.transcript_idx
    /\ wrapper'.consecutive_misses = wrapper.consecutive_misses
    /\ wrapper'.mismatches = wrapper.mismatches

\* The step wrapped every word of the buffered text in a marker.
WrappedEveryWord ==
    /\ Len(MarkersOf(wrapper'.output))
         = Len(MarkersOf(wrapper.output)) + Len(split(wrapper.text_buffer))
    /\ \A k \in 1..Len(split(wrapper.text_buffer)) :
          MarkersOf(wrapper'.output)[Len(MarkersOf(wrapper.output)) + k].word
              = split(wrapper.text_buffer)[k]

CursorInRange ==
    /\ 0 <= wrapper.transcript_idx
    /\ wrapper.transcript_idx <= Len(wrapper.transcript_words)

\* Every index of the markers m is the index of a transcript word, and no
\* two markers carry the same index.
IndicesValid(m, words) ==
    /\ \A a \in 1..Len(m) : m[a].i # None => (0 <= m[a].i /\ m[a].i < Len(words))
    /\ \A a, b \in 1..Len(m) : (a # b /\ m[a].i # None) => m[a].i # m[b].i

\* A step taken with the cursor at the end of the transcript wraps its token
\* without an index, and does not raise.
UnindexedAtEnd ==
    wrapper.transcript_idx = Len(wrapper.transcript_words)
        => /\ match_idx' = None
           /\ ~wrapper'.raised
           /\ wrapper'.transcript_idx = wrapper.transcript_idx
           /\ MarkersOf(result')[Len(MarkersOf(result'))] = [word |-> word', i |-> None]

\* C28: index validity: at every point of a pass 0 <= cursor <=
\* len(transcript), every index written into a marker is at least 0 and less
\* than len(transcript), no two markers of the pass carry the same index, and
\* once the cursor equals len(transcript) every remaining token is wrapped
\* without an index.
C28_IndicesValid ==
    /\ [](CursorInRange /\ IndicesValid(MarkersOf(result), wrapper.transcript_words))
    /\ [][UnindexedAtEnd]_vars

\* C28 witness: nevertheless took the words 0..2 and water the last word, 3;
\* the cursor is 4, the length of the transcript, and the third token was
\* wrapped without an index.
C28_Witness_TokenAfterLastWord ==
    /\ returned = "exhausted"
    /\ wrapper.transcript_idx = Len(wrapper.transcript_words)
    /\ Len(MarkersOf(result)) = 3
    /\ MarkersOf(result)[1].i = 0
    /\ MarkersOf(result)[2].i = Len(wrapper.transcript_words) - 1
    /\ MarkersOf(result)[3].i = None

\* The item opens a content div: a div whose class list holds "content".
OpensContent(item) ==
    /\ item.k = "start"
    /\ NameLower(item.tag) = "div"
    /\ has_content_class(parsed_attrs(item.attrs))

\* A content div of the items is open at their end: no closing tag of a div
\* after it is its matching one.
ContentOpen(items) ==
    \E c \in 1..Len(items) :
        /\ OpensContent(items[c])
        /\ \A e \in (c + 1)..Len(items) :
              OpenElements(SubSeq(items, c + 1, e), {"div"}) >= 0

\* C29: content-region exit: words are wrapped only between the opening tag
\* of the content div and its matching closing tag; once that closing tag
\* has been seen, in_content_div is false and no later text is wrapped or
\* consumes transcript words, also when the content div holds void elements
\* such as hr or br, and nested divs.
C29_WrappedOnlyInContent ==
    [][(pc = "feed" /\ wrapper.aligned /\ ~ContentOpen(ParsedItems))
           => /\ ~wrapper.in_content_div
              /\ FlushesText => EmittedPlain]_vars

(***************************************************************************)
(* Markers past the end of the transcript (SpecValidate)                   *)
(***************************************************************************)

\* The marker carries an index that is not the index of a transcript word.
OutOfRange(marker, transcript) == marker.i # None /\ marker.i >= Len(transcript)

\* The markers of the page that are compared: those with an index inside
\* the transcript whose word is less similar than the threshold.
ComparedAndBelow(markers, transcript) ==
    {j \in 1..Len(markers) :
        /\ markers[j].i # None
        /\ markers[j].i < Len(transcript)
        /\ ratio_below_threshold(sync_normalize_word(markers[j].word),
                                 sync_normalize_word(transcript[markers[j].i + 1]))}

\* The results list no marker that is out of range, neither as a mismatch
\* nor as a dead word, and hold no error; the counts are those of the other
\* markers.
OutOfRangePassedOver(results, markers, transcript) ==
    /\ results.errors = <<>>
    /\ \A j \in 1..Len(markers) :
          OutOfRange(markers[j], transcript) =>
             /\ \A d \in 1..Len(results.mismatches) : results.mismatches[d].data_i # markers[j].i
             /\ \A d \in 1..Len(results.dead_words) : results.dead_words[d].html_index # j - 1
    /\ Len(results.mismatches) = Cardinality(ComparedAndBelow(markers, transcript))
    /\ Len(results.dead_words) = Cardinality({j \in 1..Len(markers) : markers[j].i = None})

\* No chapter of the reports has a compared marker below the threshold.
NothingBelow ==
    \A k \in 1..Len(reports) :
        Checked(k).words # <<>> =>
            ComparedAndBelow(MarkersOf(Checked(k).page), Checked(k).words) = {}

\* C30: out-of-range indices in the validator: a marker whose index is
\* greater than or equal to the number of transcript words is never
\* compared; it is reported neither as a mismatch nor as a dead word nor as
\* an error, so it changes neither the counts nor the exit status.
C30_OutOfRangePassedOver ==
    /\ \A k \in 1..Len(reports) :
          (Checked(k).words # <<>> /\ MarkersOf(Checked(k).page) # <<>>)
          => OutOfRangePassedOver(reports[k], MarkersOf(Checked(k).page), Checked(k).words)
    /\ (exit_code # None /\ NothingBelow) => exit_code = 0

\* C30 witness: the run has ended with status 0 and a chapter whose page
\* holds a marker past the end of its transcript was reported without
\* error, mismatch or dead word.
C30_Witness_PastEndExitZero ==
    /\ exit_code = 0
    /\ \E k \in 1..Len(reports) :
          /\ Checked(k).words # <<>>
          /\ \E j \in 1..Len(MarkersOf(Checked(k).page)) :
                OutOfRange(MarkersOf(Checked(k).page)[j], Checked(k).words)
          /\ reports[k].errors = <<>>
          /\ reports[k].mismatches = <<>>
          /\ reports[k].dead_words = <<>>

=============================================================================
